---- MODULE Spec2Model ----
(***************************************************************************)
(* Transactional write coordinator (UnitOfWork) over the repository layer  *)
(* of template-acad.  The repositories dispatch every call to a Prisma     *)
(* delegate that is bound either to the ambient connection or to the       *)
(* transaction client handed to the work function; UnitOfWork hands the    *)
(* work function to prisma.$transaction.  The store below is the           *)
(* read-committed store behind the Prisma client: every transaction keeps  *)
(* its own log of uncommitted writes, reads inside a transaction see the   *)
(* committed rows plus the own log, commit applies the log, rollback drops *)
(* it, and a row written by an open transaction is locked for the others.  *)
(***************************************************************************)
EXTENDS Integers, Sequences, FiniteSets, TLC

\* ------------------------------------------------------------------ bounds
\* repository calls one work function issues
MaxSteps == 2
\* writes that callers outside the units of work make on the ambient connection
MaxAmbient == 1
\* operations handed to one batch call
MaxBatch == 2
\* ticks of the clock
MaxNow == 2

\* ------------------------------------------------------------ value domains
Null == "null"
Ambient == "ambient"
Calls == {"c1", "c2"}
Repos == {"Users", "RefreshToken", "Academies", "Plans"}
Keys == {"k1", "k2"}
RetVals == {"ret"}

BaselineOps == {"findById", "findMany", "create", "update", "delete",
                "softDelete", "count", "exists"}
ReadOps == {"findById", "findMany", "count", "exists",
            "findByEmail", "findBySlug", "findByAcademy"}
IsWrite(op) == op \notin ReadOps

\* the Prisma model each repository is bound to
KindOf(repo) ==
    CASE repo = "Users" -> "user"
      [] repo = "RefreshToken" -> "userRefreshToken"
      [] repo = "Academies" -> "academy"
      [] repo = "Plans" -> "plan"

\* User.email is looked up with findUnique, so it carries a unique constraint
UniqueKey(kind) == kind = "user"

\* ------------------------------------------------------------------- store
\* Every write carries a stamp: the scope that was passed with the call that
\* issued it (Ambient: none) and its number among the writes issued with that
\* scope.  The stamp of a create is the id of the created row (a fresh uuid),
\* the stamp of the last write to a row is the row's version.
StampOf(by, n) == [by |-> by, n |-> n]
NoStamp == StampOf(Null, 0)

\* a store is [rows, tomb]: the rows it holds and the stamps of the deletes
\* that were applied to it
EmptyStore == [rows |-> {}, tomb |-> {}]

\* password: the stored hash of a user; ref: the user a refresh token belongs
\* to; revokedAt (NoStamp: null) and expiresAt: the revocation marker and the
\* expiry time of a refresh token
Row(kind, id, key, deletedAt, ver) ==
    [kind |-> kind, id |-> id, key |-> key, deletedAt |-> deletedAt, ver |-> ver,
     password |-> Null, ref |-> NoStamp, revokedAt |-> NoStamp, expiresAt |-> 0]

Put(S, r) ==
    [S EXCEPT !.rows = {x \in S.rows : ~(x.kind = r.kind /\ x.id = r.id)} \cup {r}]

Del(S, kind, id, stamp) ==
    [rows |-> {x \in S.rows : ~(x.kind = kind /\ x.id = id)},
     tomb |-> S.tomb \cup {stamp}]

\* apply one logged write
ApplyWrite(S, w) ==
    IF w.type = "put" THEN Put(S, w.row) ELSE Del(S, w.kind, w.id, w.ver)

RECURSIVE ApplyLog(_, _)
ApplyLog(S, log) ==
    IF log = <<>> THEN S
    ELSE ApplyLog(ApplyWrite(S, Head(log)), Tail(log))

\* the writes whose effect a store shows
Stamps(S) == {r.ver : r \in S.rows} \cup S.tomb

\* ------------------------------------------------------------------- state
VARIABLES
    db,       \* the committed store: what the ambient connection reads and writes
    wcount,   \* per scope (and Ambient): writes issued with it so far
    pc,       \* per call: the state of its transaction
    mode,     \* per call: "execute", "executeWithOptions" or "batch"
    wpc,      \* per call: the state of the work function
    wlog,     \* per call: the uncommitted writes of its transaction
    steps,    \* per call: repository calls the work function has issued
    err,      \* per call: the error the work function threw
    ret,      \* per call: the value the work function returned
    outcome,  \* per call: what the call resolved or rejected with
    expired,  \* per call: the engine closed the transaction on timeout
    bops,     \* per call: the operations handed to batch
    results,  \* per call: the results batch has collected, the answers a handler keeps
    req,      \* per call: the request data handed to an AuthService method
    now       \* the clock that new Date() / Date.now() read

vars == <<db, wcount, pc, mode, wpc, wlog, steps, err, ret, outcome, expired,
          bops, results, req, now>>

Pending == [status |-> "pending", val |-> Null]
Resolved(v) == [status |-> "resolved", val |-> v]
Rejected(e) == [status |-> "rejected", val |-> e]

\* the stamp of the next write issued with scope `by`
NextStamp(by) == StampOf(by, wcount[by] + 1)
\* the writes issued so far with the scope of call t
Wrote(t) == {StampOf(t, i) : i \in 1..wcount[t]}

\* -------------------------------------------------------------- delegates
\* a delegate is a Prisma model bound to a connection: the ambient one or the
\* transaction client of a call
Delegate(conn, kind) == [conn |-> conn, kind |-> kind]

\* UsersRepository / RefreshTokenRepository: tx ? tx.user : this.prisma.user
\* AcademiesRepository / PlansRepository: getDelegate() { return this.prisma.plan }
getDelegate(repo, tx) ==
    IF repo \in {"Users", "RefreshToken"}
    THEN Delegate(IF tx # Null THEN tx ELSE Ambient, KindOf(repo))
    ELSE Delegate(Ambient, KindOf(repo))

\* BaseRepository: const delegate = tx ? this.getDelegate(tx) : this.getDelegate()
BaseDelegate(repo, tx) ==
    IF tx # Null THEN getDelegate(repo, tx) ELSE getDelegate(repo, Null)

\* the domain methods of each repository
DomainOps(repo) ==
    CASE repo = "Users" -> {"findByEmail", "createUser", "updateUser"}
      [] repo = "RefreshToken" -> {"createToken"}
      [] repo = "Academies" -> {"findBySlug", "createAcademy", "updateAcademy"}
      [] repo = "Plans" -> {"findByAcademy", "createPlan", "updatePlan"}

\* domain methods of Users and RefreshToken take tx and pick tx.<model> when it
\* is given; those of Academies and Plans take no tx and use this.prisma.<model>
DomainDelegate(repo, tx) ==
    IF repo \in {"Users", "RefreshToken"}
    THEN Delegate(IF tx # Null THEN tx ELSE Ambient, KindOf(repo))
    ELSE Delegate(Ambient, KindOf(repo))

MethodDelegate(repo, op, tx) ==
    IF op \in BaselineOps THEN BaseDelegate(repo, tx) ELSE DomainDelegate(repo, tx)

Methods(repo) == BaselineOps \cup DomainOps(repo)

\* ------------------------------------------------- the delegate operations
\* what a Prisma delegate operation does on the store S it runs against: the
\* error it raises (Null: none), its result, the rows it matched and the writes
\* it issues; `stamp` is the fresh id / version of a write.  An absent row is
\* the empty set, deletedAt = NoStamp is a null deletedAt.
Outcome(e, res, rows, log) == [err |-> e, res |-> res, rows |-> rows, log |-> log]

\* a logged write names the row it locks and the keys it takes or frees
LogPut(r, old) ==
    [type |-> "put", row |-> r, kind |-> r.kind, id |-> r.id, ver |-> r.ver,
     keys |-> {r.key} \cup {x.key : x \in old}]
LogDel(r, stamp) ==
    [type |-> "del", row |-> r, kind |-> r.kind, id |-> r.id, ver |-> stamp,
     keys |-> {r.key}]

Rows(S, kind) == {r \in S.rows : r.kind = kind}
ById(S, kind, id) == {r \in Rows(S, kind) : r.id = id}
Where(S, kind, key) ==
    IF key = Null THEN Rows(S, kind) ELSE {r \in Rows(S, kind) : r.key = key}

\* a count that stops before the first row
TakeNone(n, take) == 0

\* delegate.count({ where, take: 1 }) counts at most one row
Take(n, take) == IF n > take THEN take ELSE n

\* a create on a model whose key column has no unique index
CreateUnchecked(S, kind, a, stamp) ==
    LET r == Row(kind, stamp, a.key, NoStamp, stamp)
    IN Outcome(Null, {r}, {}, <<LogPut(r, {})>>)

\* delegate.create({ data })
Create(S, kind, a, stamp) ==
    IF UniqueKey(kind) /\ Where(S, kind, a.key) # {}
    THEN Outcome("ConstraintViolation", {}, {}, <<>>)
    ELSE LET r == Row(kind, stamp, a.key, NoStamp, stamp)
         IN Outcome(Null, {r}, {}, <<LogPut(r, {})>>)

\* delegate.update({ where: { id }, data })
Update(S, kind, a, stamp) ==
    LET old == ById(S, kind, a.id)
    IN IF old = {} THEN Outcome("NotFound", {}, {}, <<>>)
       ELSE IF UniqueKey(kind) /\ \E r \in Where(S, kind, a.key) : r.id # a.id
       THEN Outcome("ConstraintViolation", {}, {}, <<>>)
       ELSE LET r == [(CHOOSE x \in old : TRUE) EXCEPT !.key = a.key, !.ver = stamp]
            IN Outcome(Null, {r}, old, <<LogPut(r, old)>>)

\* delegate.update({ where: { id }, data: { deletedAt: new Date() } })
SoftDelete(S, kind, a, stamp) ==
    LET old == ById(S, kind, a.id)
    IN IF old = {} THEN Outcome("NotFound", {}, {}, <<>>)
       ELSE LET r == [(CHOOSE x \in old : TRUE) EXCEPT !.deletedAt = stamp, !.ver = stamp]
            IN Outcome(Null, {r}, old, <<LogPut(r, old)>>)

\* a delete written with deleteMany, which deletes what matches and raises
\* nothing when nothing does
DeleteIfPresent(S, kind, a, stamp) ==
    LET old == ById(S, kind, a.id)
    IN IF old = {} THEN Outcome(Null, {}, {}, <<>>)
       ELSE Outcome(Null, old, old, <<LogDel(CHOOSE x \in old : TRUE, stamp)>>)

\* delegate.delete({ where: { id } })
Delete(S, kind, a, stamp) ==
    LET old == ById(S, kind, a.id)
    IN IF old = {} THEN Outcome("NotFound", {}, {}, <<>>)
       ELSE Outcome(Null, old, old, <<LogDel(CHOOSE x \in old : TRUE, stamp)>>)

Active(rows) == {r \in rows : r.deletedAt = NoStamp}

\* delegate.findFirst: one of the matching rows, if any
First(rows) == IF rows = {} THEN {} ELSE {CHOOSE r \in rows : TRUE}

\* a lookup that consumes the record it finds
FindUniqueConsume(rows) ==
    IF rows = {} THEN Outcome(Null, rows, rows, <<>>)
    ELSE LET r == CHOOSE x \in rows : TRUE
         IN Outcome(Null, rows, rows, <<LogDel(r, r.ver)>>)

\* a lookup written with findUniqueOrThrow
FindUniqueOrThrow(rows) ==
    IF rows = {} THEN Outcome("NotFound", {}, {}, <<>>)
    ELSE Outcome(Null, rows, rows, <<>>)

\* delegate.findUnique({ where }): the row the unique filter matches, or null
FindUnique(rows) == Outcome(Null, rows, rows, <<>>)

Exec(S, kind, op, a, stamp) ==
    CASE op = "findById" -> FindUnique(ById(S, kind, a.id))
      [] op = "findByEmail" -> FindUnique(Where(S, kind, a.key))
      [] op = "findMany" ->
            Outcome(Null, Where(S, kind, a.key), Where(S, kind, a.key), <<>>)
      [] op = "findBySlug" ->
            Outcome(Null, First(Active(Where(S, kind, a.key))),
                    First(Active(Where(S, kind, a.key))), <<>>)
      [] op = "findByAcademy" ->
            Outcome(Null, Active(Where(S, kind, a.key)),
                    Active(Where(S, kind, a.key)), <<>>)
      [] op = "count" ->
            Outcome(Null, Cardinality(Where(S, kind, a.key)), Where(S, kind, a.key), <<>>)
      [] op = "exists" ->
            Outcome(Null, Take(Cardinality(Where(S, kind, a.key)), 1) > 0,
                    Where(S, kind, a.key), <<>>)
      [] op \in {"create", "createUser", "createToken", "createAcademy", "createPlan"} ->
            Create(S, kind, a, stamp)
      [] op \in {"update", "updateUser", "updateAcademy", "updatePlan"} ->
            Update(S, kind, a, stamp)
      [] op = "softDelete" -> SoftDelete(S, kind, a, stamp)
      [] op = "delete" -> Delete(S, kind, a, stamp)

\* ------------------------------------------------ transactions in the store
\* what a read or write on a connection runs against: the committed rows, and
\* for a transaction client its own uncommitted writes on top of them
View(t) == ApplyLog(db, wlog[t])
StoreOf(conn) == IF conn = Ambient THEN db ELSE View(conn)

\* row locks: a write waits while another open transaction holds an uncommitted
\* write on the same row or, for a unique key, on the same key
Blocked(conn, kind, op, a) ==
    /\ IsWrite(op)
    /\ \E u \in Calls \ {conn} : \E i \in 1..Len(wlog[u]) :
          LET w == wlog[u][i]
          IN /\ w.kind = kind
             /\ \/ w.id = a.id
                \/ UniqueKey(kind) /\ a.key \in w.keys

\* a call on a transaction client raises the engine's error (P2028) once the
\* engine has closed the transaction
Closed(conn) == conn # Ambient /\ expired[conn]

\* the scope a write is issued with
ScopeOf(tx) == IF tx = Null THEN Ambient ELSE tx

\* one repository call, with the scope tx passed (Null: none): the outcome of
\* the delegate operation on the connection the method resolved
CallOutcome(repo, op, a, tx) ==
    LET d == MethodDelegate(repo, op, tx)
    IN IF Closed(d.conn) THEN Outcome("Timeout", {}, {}, <<>>)
       ELSE Exec(StoreOf(d.conn), d.kind, op, a, NextStamp(ScopeOf(tx)))

CanCall(repo, op, a, tx) ==
    LET d == MethodDelegate(repo, op, tx)
        o == CallOutcome(repo, op, a, tx)
    IN /\ ~Blocked(d.conn, d.kind, op, a)
       /\ (o.log # <<>> /\ tx = Null) => wcount[Ambient] < MaxAmbient

\* the store effect of a successful call: auto-commit on the ambient
\* connection, the transaction's log on a transaction client
StoreEffect(repo, op, a, tx) ==
    LET d == MethodDelegate(repo, op, tx)
        o == CallOutcome(repo, op, a, tx)
    IN /\ wcount' = IF o.log # <<>>
                    THEN [wcount EXCEPT ![ScopeOf(tx)] = @ + 1] ELSE wcount
       /\ IF d.conn = Ambient
          THEN /\ db' = ApplyLog(db, o.log)
               /\ wlog' = wlog
          ELSE /\ db' = db
               /\ wlog' = [wlog EXCEPT ![d.conn] = @ \o o.log]

\* ---------------------------------------------------------------- inputs
\* the ids a caller passes: the id of a row it can have read, or an id that
\* matches no row
KnownIds(t, kind) ==
    {r.id : r \in Rows(db, kind)}
    \cup (IF t = Null THEN {} ELSE {r.id : r \in Rows(View(t), kind)})
    \cup {NoStamp}

\* the keys callers pass for a model: two emails for the users, whose email is
\* unique, one key for the others
KeysOf(kind) == IF UniqueKey(kind) THEN Keys ELSE {"k1"}

\* the arguments a method takes: an id, a key (email, token, slug, academy) or
\* a filter on the key (Null: no filter)
ArgsOf(op, ids, ks) ==
    CASE op \in {"findById", "delete", "softDelete"} ->
            {[id |-> i, key |-> Null] : i \in ids}
      [] op \in {"create", "createUser", "createToken", "createAcademy",
                 "createPlan", "findByEmail", "findBySlug", "findByAcademy"} ->
            {[id |-> NoStamp, key |-> k] : k \in ks}
      [] op \in {"update", "updateUser", "updateAcademy", "updatePlan"} ->
            {[id |-> i, key |-> k] : i \in ids, k \in ks}
      [] op \in {"findMany", "count", "exists"} ->
            {[id |-> NoStamp, key |-> k] : k \in ks \cup {Null}}

\* ------------------------------------------------------------------- Init
Init ==
    /\ db = EmptyStore
    /\ wcount = [c \in Calls \cup {Ambient} |-> 0]
    /\ pc = [t \in Calls |-> "Idle"]
    /\ mode = [t \in Calls |-> Null]
    /\ wpc = [t \in Calls |-> "notStarted"]
    /\ wlog = [t \in Calls |-> <<>>]
    /\ steps = [t \in Calls |-> 0]
    /\ err = [t \in Calls |-> Null]
    /\ ret = [t \in Calls |-> Null]
    /\ outcome = [t \in Calls |-> Pending]
    /\ expired = [t \in Calls |-> FALSE]
    /\ bops = [t \in Calls |-> <<>>]
    /\ results = [t \in Calls |-> <<>>]
    /\ req = [t \in Calls |-> Null]
    /\ now = 0

\* ------------------------------------------- calls outside any work function
\* a repository write without a scope, by a caller that is in no unit of work
AmbientWrite(repo, op, a) ==
    LET o == CallOutcome(repo, op, a, Null)
    IN /\ IsWrite(op)
       /\ CanCall(repo, op, a, Null)
       /\ o.err = Null
       /\ StoreEffect(repo, op, a, Null)
       /\ UNCHANGED <<req, now, pc, mode, wpc, steps, err, ret, outcome, expired, bops,
                      results>>

\* ------------------------------------------------------------- UnitOfWork
\* execute(work), executeWithOptions(work, options), batch(operations):
\* this.prisma.$transaction is entered and asks the engine for a transaction
Begin(t, m, ops) ==
    /\ pc[t] = "Idle"
    /\ pc' = [pc EXCEPT ![t] = "ScopeAcquiring"]
    /\ mode' = [mode EXCEPT ![t] = m]
    /\ bops' = [bops EXCEPT ![t] = ops]
    /\ UNCHANGED <<req, now, db, wcount, wpc, wlog, steps, err, ret, outcome, expired,
                   results>>

\* the engine hands out the transaction; $transaction invokes work(tx)
Acquire(t) ==
    /\ pc[t] = "ScopeAcquiring"
    /\ pc' = [pc EXCEPT ![t] = "ScopeOpen"]
    /\ wpc' = [wpc EXCEPT ![t] = "running"]
    /\ UNCHANGED <<req, now, db, wcount, mode, wlog, steps, err, ret, outcome, expired,
                   bops, results>>

\* no transaction within maxWait (options.maxWait, or the engine's default):
\* $transaction rejects and work is never invoked
AcquireTimeout(t) ==
    /\ pc[t] = "ScopeAcquiring"
    /\ mode[t] # "batch"
    /\ pc' = [pc EXCEPT ![t] = "StartFailed"]
    /\ outcome' = [outcome EXCEPT ![t] = Rejected("Timeout")]
    /\ UNCHANGED <<req, now, db, wcount, mode, wpc, wlog, steps, err, ret, expired,
                   bops, results>>

\* the work function leaves with an error: the transaction, if still open, is
\* to be rolled back
Throws(t, e) ==
    /\ wpc' = [wpc EXCEPT ![t] = "threw"]
    /\ err' = [err EXCEPT ![t] = e]
    /\ pc' = [pc EXCEPT ![t] = IF @ = "ScopeOpen" THEN "RollingBack" ELSE @]

\* the work function returns: the transaction, if still open, is to be committed
Returns(t, v) ==
    /\ wpc' = [wpc EXCEPT ![t] = "returned"]
    /\ ret' = [ret EXCEPT ![t] = v]
    /\ pc' = [pc EXCEPT ![t] = IF @ = "ScopeOpen" THEN "Committing" ELSE @]

\* the work function of call t calls a repository method, passing its scope
\* (tx = t) or not (tx = Null); an error of the call leaves the work function
WorkCall(t, repo, op, a, tx) ==
    LET o == CallOutcome(repo, op, a, tx)
    IN /\ wpc[t] = "running"
       /\ mode[t] # "batch"
       /\ steps[t] < MaxSteps
       /\ CanCall(repo, op, a, tx)
       /\ steps' = [steps EXCEPT ![t] = @ + 1]
       /\ IF o.err = Null
          THEN /\ StoreEffect(repo, op, a, tx)
               /\ UNCHANGED <<pc, wpc, err>>
          ELSE /\ Throws(t, o.err)
               /\ UNCHANGED <<db, wlog, wcount>>
       /\ UNCHANGED <<req, now, mode, ret, outcome, expired, bops, results>>

\* what the work function keeps of a read: the call and what it returned
Answer(repo, op, a, tx, res) ==
    [repo |-> repo, op |-> op, a |-> a, tx |-> tx, res |-> res]

\* the work function of call t calls a read method of a repository, passing
\* its scope or not, and keeps what the method returned
ReadCall(t, repo, op, a, tx) ==
    LET o == CallOutcome(repo, op, a, tx)
    IN /\ wpc[t] = "running"
       /\ mode[t] # "batch"
       /\ steps[t] < MaxSteps
       /\ op \in ReadOps
       /\ CanCall(repo, op, a, tx)
       /\ steps' = [steps EXCEPT ![t] = @ + 1]
       /\ IF o.err = Null
          THEN /\ StoreEffect(repo, op, a, tx)
               /\ results' = [results EXCEPT ![t] = Append(@, Answer(repo, op, a, tx, o.res))]
               /\ UNCHANGED <<pc, wpc, err>>
          ELSE /\ Throws(t, o.err)
               /\ UNCHANGED <<db, wcount, wlog, results>>
       /\ UNCHANGED <<req, now, mode, ret, outcome, expired, bops>>

\* the work function throws an error of its own
WorkThrow(t) ==
    /\ wpc[t] = "running"
    /\ mode[t] # "batch"
    /\ Throws(t, "WorkError")
    /\ UNCHANGED <<req, now, db, wcount, mode, wlog, steps, ret, outcome, expired, bops,
                   results>>

\* the work function returns v
WorkReturn(t, v) ==
    /\ wpc[t] = "running"
    /\ mode[t] # "batch"
    /\ Returns(t, v)
    /\ UNCHANGED <<req, now, db, wcount, mode, wlog, steps, err, outcome, expired, bops,
                   results>>

\* a $transaction that commits whatever the engine did to the transaction
CommitIgnoresExpiry(t) ==
    /\ wpc[t] = "returned"
    /\ outcome[t] = Pending
    /\ db' = ApplyLog(db, wlog[t])
    /\ wlog' = [wlog EXCEPT ![t] = <<>>]
    /\ pc' = [pc EXCEPT ![t] = "Committed"]
    /\ outcome' = [outcome EXCEPT ![t] = Resolved(ret[t])]
    /\ UNCHANGED <<req, now, wcount, mode, wpc, steps, err, ret, expired, bops, results>>

\* an execute that awaits the transaction and does not return its result
CommitDropsResult(t) ==
    /\ wpc[t] = "returned"
    /\ outcome[t] = Pending
    /\ IF expired[t]
       THEN /\ outcome' = [outcome EXCEPT ![t] = Rejected("Timeout")]
            /\ UNCHANGED <<db, pc, wlog>>
       ELSE /\ db' = ApplyLog(db, wlog[t])
            /\ wlog' = [wlog EXCEPT ![t] = <<>>]
            /\ pc' = [pc EXCEPT ![t] = "Committed"]
            /\ outcome' = [outcome EXCEPT ![t] = Resolved(Null)]
    /\ UNCHANGED <<req, now, wcount, mode, wpc, steps, err, ret, expired, bops, results>>

\* $transaction after work returned: commit; a transaction the engine has
\* closed cannot be committed and the call rejects with the engine's error
Commit(t) ==
    /\ wpc[t] = "returned"
    /\ outcome[t] = Pending
    /\ IF expired[t]
       THEN /\ outcome' = [outcome EXCEPT ![t] = Rejected("Timeout")]
            /\ UNCHANGED <<db, pc, wlog>>
       ELSE /\ db' = ApplyLog(db, wlog[t])
            /\ wlog' = [wlog EXCEPT ![t] = <<>>]
            /\ pc' = [pc EXCEPT ![t] = "Committed"]
            /\ outcome' = [outcome EXCEPT ![t] = Resolved(ret[t])]
    /\ UNCHANGED <<req, now, wcount, mode, wpc, steps, err, ret, expired, bops, results>>

\* an execute that runs the work function again when the engine timed out
RollbackRetriesTimeout(t) ==
    /\ wpc[t] = "threw"
    /\ outcome[t] = Pending
    /\ wlog' = [wlog EXCEPT ![t] = <<>>]
    /\ pc' = [pc EXCEPT ![t] = IF @ = "RollingBack" THEN "RolledBack" ELSE @]
    /\ IF err[t] = "Timeout"
       THEN wpc' = [wpc EXCEPT ![t] = "running"] /\ outcome' = outcome
       ELSE wpc' = wpc /\ outcome' = [outcome EXCEPT ![t] = Rejected(err[t])]
    /\ UNCHANGED <<req, now, db, wcount, mode, steps, err, ret, expired, bops, results>>

\* an execute that catches the error of the transaction and throws one of its
\* own in its place
RollbackWrapsError(t) ==
    /\ wpc[t] = "threw"
    /\ outcome[t] = Pending
    /\ wlog' = [wlog EXCEPT ![t] = <<>>]
    /\ pc' = [pc EXCEPT ![t] = IF @ = "RollingBack" THEN "RolledBack" ELSE @]
    /\ outcome' = [outcome EXCEPT ![t] = Rejected("TransactionFailed")]
    /\ UNCHANGED <<req, now, db, wcount, mode, wpc, steps, err, ret, expired, bops,
                   results>>

\* a rollback that also undoes what the work function wrote without a scope
RollbackUndoesUnscoped(t) ==
    /\ wpc[t] = "threw"
    /\ outcome[t] = Pending
    /\ wlog' = [wlog EXCEPT ![t] = <<>>]
    /\ db' = [db EXCEPT !.rows = {r \in @ : r.ver.by # Ambient}]
    /\ pc' = [pc EXCEPT ![t] = IF @ = "RollingBack" THEN "RolledBack" ELSE @]
    /\ outcome' = [outcome EXCEPT ![t] = Rejected(err[t])]
    /\ UNCHANGED <<req, now, wcount, mode, wpc, steps, err, ret, expired, bops,
                   results>>

\* a rollback that also undoes what executes made from inside the work
\* function have committed
RollbackCascades(t) ==
    /\ wpc[t] = "threw"
    /\ outcome[t] = Pending
    /\ wlog' = [wlog EXCEPT ![t] = <<>>]
    /\ db' = [db EXCEPT !.rows = {r \in @ : r.ver.by \notin Calls \ {t}}]
    /\ pc' = [pc EXCEPT ![t] = IF @ = "RollingBack" THEN "RolledBack" ELSE @]
    /\ outcome' = [outcome EXCEPT ![t] = Rejected(err[t])]
    /\ UNCHANGED <<req, now, wcount, mode, wpc, steps, err, ret, expired, bops,
                   results>>

\* $transaction after work threw: roll back what is still open, rethrow
Rollback(t) ==
    /\ wpc[t] = "threw"
    /\ outcome[t] = Pending
    /\ wlog' = [wlog EXCEPT ![t] = <<>>]
    /\ pc' = [pc EXCEPT ![t] = IF @ = "RollingBack" THEN "RolledBack" ELSE @]
    /\ outcome' = [outcome EXCEPT ![t] = Rejected(err[t])]
    /\ UNCHANGED <<req, now, db, wcount, mode, wpc, steps, err, ret, expired, bops,
                   results>>

\* the transaction has run longer than its timeout (options.timeout, or the
\* engine's default): the engine rolls it back and closes it while the work
\* function is still running
Expire(t) ==
    /\ pc[t] = "ScopeOpen"
    /\ mode[t] # "batch"
    /\ pc' = [pc EXCEPT ![t] = "RolledBack"]
    /\ wlog' = [wlog EXCEPT ![t] = <<>>]
    /\ expired' = [expired EXCEPT ![t] = TRUE]
    /\ UNCHANGED <<req, now, db, wcount, mode, wpc, steps, err, ret, outcome, bops,
                   results>>

\* ------------------------------------------------ a scope that outlives its call
\* a repository call that passes the transaction client of a call that has
\* returned: the engine refuses every operation on the client of a transaction
\* it has committed or rolled back (transaction already closed); a method that
\* resolved the ambient delegate runs there as if no scope had been passed
StaleCallOutcome(repo, op, a, tx) ==
    LET d == MethodDelegate(repo, op, tx)
    IN IF d.conn # Ambient THEN Outcome("InvalidScopeUse", {}, {}, <<>>)
       ELSE Exec(db, d.kind, op, a, NextStamp(ScopeOf(tx)))

\* code that kept the transaction client of call t calls a repository method
\* with it after the call has settled
StaleCall(t, repo, op, a) ==
    LET d == MethodDelegate(repo, op, t)
        o == StaleCallOutcome(repo, op, a, t)
    IN /\ outcome[t] # Pending
       /\ pc[t] \in {"Committed", "RolledBack"}
       /\ steps[t] < MaxSteps
       /\ ~Blocked(d.conn, d.kind, op, a)
       /\ steps' = [steps EXCEPT ![t] = @ + 1]
       /\ IF o.err = Null
          THEN /\ db' = ApplyLog(db, o.log)
               /\ wcount' = IF o.log # <<>>
                            THEN [wcount EXCEPT ![t] = @ + 1] ELSE wcount
          ELSE UNCHANGED <<db, wcount>>
       /\ UNCHANGED <<req, now, pc, mode, wpc, wlog, err, ret, outcome, expired, bops,
                      results>>

\* --------------------------------------------------------------- batch
\* the operations a batch is built from: PrismaPromises made on the delegates
\* of the ambient client (this.prisma.user.count(), ...)
BatchOps ==
    {[kind |-> k, op |-> "count", a |-> [id |-> NoStamp, key |-> Null]] :
        k \in {"user", "academy"}}
    \cup {[kind |-> "user", op |-> "findMany", a |-> [id |-> NoStamp, key |-> Null]]}
    \cup {[kind |-> k, op |-> "create", a |-> [id |-> NoStamp, key |-> "k1"]] :
        k \in {"user", "academy"}}
    \cup {[kind |-> "user", op |-> "delete", a |-> [id |-> i, key |-> Null]] :
        i \in KnownIds(Null, "user")}

BatchLists == UNION {[1..n -> BatchOps] : n \in 1..MaxBatch}

\* a batch that collected the results as its operations completed, latest first
CollectLatestFirst(res, r) == <<r>> \o res

\* the results of a batch are in the order of its operations
Collect(res, r) == Append(res, r)

\* a batch that ran its operations one by one on the ambient connection, with
\* no transaction around them
BatchStepNoTransaction(t) ==
    LET i == Len(results[t]) + 1
        b == bops[t][i]
        o == Exec(db, b.kind, b.op, b.a, NextStamp(t))
    IN /\ wpc[t] = "running"
       /\ mode[t] = "batch"
       /\ i <= Len(bops[t])
       /\ ~Blocked(Ambient, b.kind, b.op, b.a)
       /\ IF o.err = Null
          THEN /\ db' = ApplyLog(db, o.log)
               /\ wcount' = IF o.log # <<>>
                            THEN [wcount EXCEPT ![t] = @ + 1] ELSE wcount
               /\ results' = [results EXCEPT ![t] = Collect(@, o.res)]
               /\ IF i = Len(bops[t])
                  THEN Returns(t, results'[t]) /\ err' = err
                  ELSE UNCHANGED <<pc, wpc, ret, err>>
          ELSE /\ Throws(t, o.err)
               /\ UNCHANGED <<db, wcount, results, ret>>
       /\ UNCHANGED <<req, now, wlog, mode, steps, outcome, expired, bops>>

\* $transaction([...operations]): the engine runs the next operation of the
\* batch inside the batch's transaction, in input order; after the last one
\* the results are what the batch returns
BatchStep(t) ==
    LET i == Len(results[t]) + 1
        b == bops[t][i]
        o == Exec(View(t), b.kind, b.op, b.a, NextStamp(t))
    IN /\ wpc[t] = "running"
       /\ mode[t] = "batch"
       /\ i <= Len(bops[t])
       /\ ~Blocked(t, b.kind, b.op, b.a)
       /\ IF o.err = Null
          THEN /\ wlog' = [wlog EXCEPT ![t] = @ \o o.log]
               /\ wcount' = IF o.log # <<>>
                            THEN [wcount EXCEPT ![t] = @ + 1] ELSE wcount
               /\ results' = [results EXCEPT ![t] = Collect(@, o.res)]
               /\ IF i = Len(bops[t])
                  THEN Returns(t, results'[t]) /\ err' = err
                  ELSE UNCHANGED <<pc, wpc, ret, err>>
          ELSE /\ Throws(t, o.err)
               /\ UNCHANGED <<wlog, wcount, results, ret>>
       /\ UNCHANGED <<req, now, db, mode, steps, outcome, expired, bops>>

\* ------------------------------------------------------------- AuthService
\* AuthService calls the repositories without a scope and uses no unit of
\* work: every repository call of a handler is a step of its own on the
\* ambient connection.  wpc is the statement the handler is at.
Passwords == {"Passw0rd1", "Passw0rd2", "weak"}

\* PasswordStrategy.validate: length, upper case, lower case, digit
validate(password) == password # "weak"

\* PasswordStrategy.hash / compare (bcrypt): compare accepts exactly the hashes
\* of the plain password
hash(password) ==
    CASE password = "Passw0rd1" -> "$2b$10$hash1"
      [] password = "Passw0rd2" -> "$2b$10$hash2"
      [] OTHER -> "$2b$10$hash0"
compare(plainPassword, hashedPassword) == hashedPassword = hash(plainPassword)

\* TokenStrategy.generateRefreshToken: a fresh uuid for every token pair
generateRefreshToken(t) == IF t = "c1" THEN "uuid-1" ELSE "uuid-2"

\* TokenStrategy.getRefreshTokenExpiry: new Date(Date.now() + days), in ticks
RefreshTtl == 1
getRefreshTokenExpiry(clock) == clock + RefreshTtl

RegisterData == {[email |-> e, password |-> p] : e \in Keys, p \in {"Passw0rd1", "weak"}}
LoginData == {[email |-> e, password |-> p] : e \in Keys, p \in {"Passw0rd1", "Passw0rd2"}}

\* usersRepository.createUser({ email, name, password: hashedPassword, phone })
createUser(S, data, stamp) ==
    LET o == Exec(S, "user", "createUser", [id |-> NoStamp, key |-> data.email], stamp)
    IN IF o.err # Null THEN o
       ELSE LET r == [(CHOOSE x \in o.res : TRUE) EXCEPT !.password = data.password]
            IN Outcome(Null, {r}, {}, <<LogPut(r, {})>>)

\* refreshTokenRepository.createToken({ user: { connect: { id } }, token,
\* expiresAt }): the user to connect must exist
createToken(S, data, stamp) ==
    IF ById(S, "user", data.userId) = {} THEN Outcome("NotFound", {}, {}, <<>>)
    ELSE LET r == [Row("userRefreshToken", stamp, data.token, NoStamp, stamp)
                      EXCEPT !.ref = data.userId, !.expiresAt = data.expiresAt]
         IN Outcome(Null, {r}, {}, <<LogPut(r, {})>>)

\* the handler throws e: the promise it returned rejects with e
Rejects(t, e) ==
    /\ wpc' = [wpc EXCEPT ![t] = "threw"]
    /\ err' = [err EXCEPT ![t] = e]
    /\ outcome' = [outcome EXCEPT ![t] = Rejected(e)]

\* the handler goes on to its next statement
GoesTo(t, stmt) ==
    /\ wpc' = [wpc EXCEPT ![t] = stmt]
    /\ UNCHANGED <<err, outcome>>

\* register(data): the password is validated before anything is looked up
register(t, data) ==
    /\ mode[t] = Null
    /\ pc[t] = "Idle"
    /\ mode' = [mode EXCEPT ![t] = "register"]
    /\ req' = [req EXCEPT ![t] = data]
    /\ IF ~validate(data.password)
       THEN Rejects(t, "BadRequestException")
       ELSE GoesTo(t, "findByEmail")
    /\ UNCHANGED <<db, wcount, pc, wlog, steps, ret, expired, bops, results, now>>

\* a register that leaves the duplicate email to the unique index
registerWithoutLookup(t) ==
    /\ mode[t] = "register"
    /\ wpc[t] = "findByEmail"
    /\ steps' = [steps EXCEPT ![t] = @ + 1]
    /\ GoesTo(t, "createUser")
    /\ UNCHANGED <<db, wcount, pc, mode, wlog, ret, expired, bops, results, req, now>>

\* register: const emailExists = await this.usersRepository.findByEmail(email);
\* if (emailExists) throw new ConflictException
registerFindByEmail(t) ==
    LET o == CallOutcome("Users", "findByEmail",
                         [id |-> NoStamp, key |-> req[t].email], Null)
    IN /\ mode[t] = "register"
       /\ wpc[t] = "findByEmail"
       /\ steps' = [steps EXCEPT ![t] = @ + 1]
       /\ IF o.res # {}
          THEN Rejects(t, "ConflictException")
          ELSE GoesTo(t, "createUser")
       /\ UNCHANGED <<db, wcount, pc, mode, wlog, ret, expired, bops, results, req, now>>

\* register: const user = await this.usersRepository.createUser({ ...,
\* password: hashedPassword }); the write carries the stamp of the request
registerCreateUser(t) ==
    LET data == [email |-> req[t].email, password |-> hash(req[t].password)]
        o == createUser(StoreOf(MethodDelegate("Users", "createUser", Null).conn),
                        data, NextStamp(t))
    IN /\ mode[t] = "register"
       /\ wpc[t] = "createUser"
       /\ ~Blocked(Ambient, "user", "createUser", [id |-> NoStamp, key |-> data.email])
       /\ steps' = [steps EXCEPT ![t] = @ + 1]
       /\ IF o.err = Null
          THEN /\ db' = ApplyLog(db, o.log)
               /\ wcount' = [wcount EXCEPT ![t] = @ + 1]
               /\ results' = [results EXCEPT ![t] = <<CHOOSE r \in o.res : TRUE>>]
               /\ GoesTo(t, "makeTokens")
          ELSE /\ Rejects(t, o.err)
               /\ UNCHANGED <<db, wcount, results>>
       /\ UNCHANGED <<pc, mode, wlog, ret, expired, bops, req, now>>

\* login(data)
login(t, data) ==
    /\ mode[t] = Null
    /\ pc[t] = "Idle"
    /\ mode' = [mode EXCEPT ![t] = "login"]
    /\ req' = [req EXCEPT ![t] = data]
    /\ GoesTo(t, "findByEmail")
    /\ UNCHANGED <<db, wcount, pc, wlog, steps, ret, expired, bops, results, now>>

\* a login that does not look at deletedAt
loginIgnoresDeleted(t) ==
    LET o == CallOutcome("Users", "findByEmail",
                         [id |-> NoStamp, key |-> req[t].email], Null)
        user == CHOOSE r \in o.res : TRUE
    IN /\ mode[t] = "login"
       /\ wpc[t] = "findByEmail"
       /\ steps' = [steps EXCEPT ![t] = @ + 1]
       /\ IF o.res = {}
          THEN Rejects(t, "UnauthorizedException") /\ results' = results
          ELSE IF ~compare(req[t].password, user.password)
          THEN Rejects(t, "UnauthorizedException") /\ results' = results
          ELSE /\ results' = [results EXCEPT ![t] = <<user>>]
               /\ GoesTo(t, "makeTokens")
       /\ UNCHANGED <<db, wcount, pc, mode, wlog, ret, expired, bops, req, now>>

\* login: const user = await this.usersRepository.findByEmail(email);
\* if (!user || user.deletedAt) throw; if (!(await compare(...))) throw
loginFindByEmail(t) ==
    LET o == CallOutcome("Users", "findByEmail",
                         [id |-> NoStamp, key |-> req[t].email], Null)
        user == CHOOSE r \in o.res : TRUE
    IN /\ mode[t] = "login"
       /\ wpc[t] = "findByEmail"
       /\ steps' = [steps EXCEPT ![t] = @ + 1]
       /\ IF o.res = {} \/ user.deletedAt # NoStamp
          THEN Rejects(t, "UnauthorizedException") /\ results' = results
          ELSE IF ~compare(req[t].password, user.password)
          THEN Rejects(t, "UnauthorizedException") /\ results' = results
          ELSE /\ results' = [results EXCEPT ![t] = <<user>>]
               /\ GoesTo(t, "makeTokens")
       /\ UNCHANGED <<db, wcount, pc, mode, wlog, ret, expired, bops, req, now>>

\* makeTokens(user): the refresh token of the pair is stored for the user, the
\* pair and the user are returned
makeTokens(t) ==
    LET user == results[t][1]
        data == [userId |-> user.id, token |-> generateRefreshToken(t),
                 expiresAt |-> getRefreshTokenExpiry(now)]
        o == createToken(StoreOf(MethodDelegate("RefreshToken", "createToken", Null).conn),
                         data, NextStamp(t))
    IN /\ mode[t] \in {"register", "login", "refreshToken"}
       /\ wpc[t] = "makeTokens"
       /\ steps' = [steps EXCEPT ![t] = @ + 1]
       /\ IF o.err = Null
          THEN /\ db' = ApplyLog(db, o.log)
               /\ wcount' = [wcount EXCEPT ![t] = @ + 1]
               /\ wpc' = [wpc EXCEPT ![t] = "returned"]
               /\ ret' = [ret EXCEPT ![t] =
                            [accessToken |-> [sub |-> user.id, email |-> user.key],
                             refreshToken |-> data.token,
                             user |-> [id |-> user.id, email |-> user.key]]]
               /\ outcome' = [outcome EXCEPT ![t] = Resolved(ret'[t])]
               /\ err' = err
          ELSE /\ Rejects(t, o.err)
               /\ UNCHANGED <<db, wcount, ret>>
       /\ UNCHANGED <<pc, mode, wlog, expired, bops, results, req, now>>

\* makeTokens: the store fails the createToken call (connection lost, query
\* timeout): the await rejects with the store's error and nothing is written
makeTokensStoreError(t) ==
    /\ mode[t] \in {"register", "login", "refreshToken"}
    /\ wpc[t] = "makeTokens"
    /\ steps' = [steps EXCEPT ![t] = @ + 1]
    /\ Rejects(t, "StoreError")
    /\ UNCHANGED <<db, wcount, pc, mode, wlog, ret, expired, bops, results, req, now>>

\* ------------------------------------------------- RefreshTokenRepository
\* the rows of a set as a sequence of writes, in some order
RECURSIVE LogOf(_, _, _)
LogOf(rows, type, stamp) ==
    IF rows = {} THEN <<>>
    ELSE LET r == CHOOSE x \in rows : TRUE
         IN <<IF type = "put" THEN LogPut(r, {r}) ELSE LogDel(r, stamp)>>
            \o LogOf(rows \ {r}, type, stamp)

\* ...(token && { token }): undefined and the empty string add no condition
Truthy(token) == token \notin {Null, ""}

\* a validity check that accepts a token up to and at its expiry time
findValidTokenUntilExpiry(S, token, clock) ==
    LET found == First({r \in Rows(S, "userRefreshToken") :
                          /\ r.key = token
                          /\ r.revokedAt = NoStamp
                          /\ r.expiresAt >= clock})
    IN Outcome(Null, found, found, <<>>)

\* findValidToken: delegate.findFirst({ where: { token, revokedAt: null,
\* expiresAt: { gt: new Date() } }, include: { user: true } })
findValidToken(S, token, clock) ==
    LET found == First({r \in Rows(S, "userRefreshToken") :
                          /\ r.key = token
                          /\ r.revokedAt = NoStamp
                          /\ r.expiresAt > clock})
    IN Outcome(Null, found, found, <<>>)

\* include: { user: true }: the user the record belongs to
UserOf(S, record) == ById(S, "user", record.ref)

\* a revocation that toggles the marker: a revoked token becomes unrevoked
revokeTokenToggle(S, id, stamp) ==
    LET old == ById(S, "userRefreshToken", id)
    IN IF old = {} THEN Outcome("NotFound", {}, {}, <<>>)
       ELSE LET x == CHOOSE y \in old : TRUE
                r == [x EXCEPT !.revokedAt = IF @ = NoStamp THEN stamp ELSE NoStamp,
                               !.ver = stamp]
            IN Outcome(Null, {r}, old, <<LogPut(r, old)>>)

\* revokeToken: delegate.update({ where: { id }, data: { revokedAt: new Date() } })
revokeToken(S, id, stamp) ==
    LET old == ById(S, "userRefreshToken", id)
    IN IF old = {} THEN Outcome("NotFound", {}, {}, <<>>)
       ELSE LET r == [(CHOOSE x \in old : TRUE) EXCEPT !.revokedAt = stamp, !.ver = stamp]
            IN Outcome(Null, {r}, old, <<LogPut(r, old)>>)

\* a revocation by token value alone, whoever the user is
revokeUserTokensAnyUser(S, userId, token, stamp) ==
    LET old == {r \in Rows(S, "userRefreshToken") :
                  /\ Truthy(token) => r.key = token
                  /\ r.revokedAt = NoStamp}
        new == {[r EXCEPT !.revokedAt = stamp, !.ver = stamp] : r \in old}
    IN Outcome(Null, Cardinality(old), old, LogOf(new, "put", stamp))

\* revokeUserTokens: delegate.updateMany({ where: { userId, ...(token &&
\* { token }), revokedAt: null }, data: { revokedAt: new Date() } }); the
\* result is the number of rows updated
revokeUserTokens(S, userId, token, stamp) ==
    LET old == {r \in Rows(S, "userRefreshToken") :
                  /\ r.ref = userId
                  /\ Truthy(token) => r.key = token
                  /\ r.revokedAt = NoStamp}
        new == {[r EXCEPT !.revokedAt = stamp, !.ver = stamp] : r \in old}
    IN Outcome(Null, Cardinality(old), old, LogOf(new, "put", stamp))

\* cleanExpiredTokens: delegate.deleteMany({ where: { OR: [{ expiresAt:
\* { lt: new Date() } }, { revokedAt: { not: null } }] } })
cleanExpiredTokens(S, clock, stamp) ==
    LET old == {r \in Rows(S, "userRefreshToken") :
                  r.expiresAt < clock \/ r.revokedAt # NoStamp}
    IN Outcome(Null, Cardinality(old), old, LogOf(old, "del", stamp))

\* a write of several rows waits while an open transaction holds one of them
BlockedRows(conn, rows) ==
    \E u \in Calls \ {conn} : \E i \in 1..Len(wlog[u]) :
        \E r \in rows : wlog[u][i].kind = r.kind /\ wlog[u][i].id = r.id

\* the users and refresh tokens that earlier registrations left in the store:
\* two users, each with one refresh token issued at time 0
SeedStamp(n) == StampOf("seed", n)
SeedUser(n, email) ==
    [Row("user", SeedStamp(n), email, NoStamp, SeedStamp(n))
        EXCEPT !.password = hash("Passw0rd1")]
SeedToken(n, token, userId) ==
    [Row("userRefreshToken", SeedStamp(n), token, NoStamp, SeedStamp(n))
        EXCEPT !.ref = userId, !.expiresAt = getRefreshTokenExpiry(0)]
SeedStore ==
    [rows |-> {SeedUser(1, "k1"), SeedUser(2, "k2"),
               SeedToken(3, "tok-1", SeedStamp(1)),
               SeedToken(4, "tok-2", SeedStamp(2))},
     tomb |-> {}]
UserIds == {SeedStamp(1), SeedStamp(2)}

InitToken ==
    /\ db = SeedStore
    /\ wcount = [c \in Calls \cup {Ambient} |-> 0]
    /\ pc = [t \in Calls |-> "Idle"]
    /\ mode = [t \in Calls |-> Null]
    /\ wpc = [t \in Calls |-> "notStarted"]
    /\ wlog = [t \in Calls |-> <<>>]
    /\ steps = [t \in Calls |-> 0]
    /\ err = [t \in Calls |-> Null]
    /\ ret = [t \in Calls |-> Null]
    /\ outcome = [t \in Calls |-> Pending]
    /\ expired = [t \in Calls |-> FALSE]
    /\ bops = [t \in Calls |-> <<>>]
    /\ results = [t \in Calls |-> <<>>]
    /\ req = [t \in Calls |-> Null]
    /\ now = 0

\* time passes
Tick ==
    /\ now < MaxNow
    /\ now' = now + 1
    /\ UNCHANGED <<db, wcount, pc, mode, wpc, wlog, steps, err, ret, outcome,
                   expired, bops, results, req>>

\* the scheduled clean-up: refreshTokenRepository.cleanExpiredTokens()
CleanUp ==
    LET o == cleanExpiredTokens(db, now, NextStamp(Ambient))
    IN /\ wcount[Ambient] < MaxAmbient
       /\ o.rows # {}
       /\ ~BlockedRows(Ambient, o.rows)
       /\ db' = ApplyLog(db, o.log)
       /\ wcount' = [wcount EXCEPT ![Ambient] = @ + 1]
       /\ UNCHANGED <<pc, mode, wpc, wlog, steps, err, ret, outcome, expired,
                      bops, results, req, now>>

\* ------------------------------------------- AuthService: refresh and logout
RefreshInputs == {"tok-1", "tok-2", "uuid-1"}
LogoutInputs == {[userId |-> u, token |-> k] : u \in UserIds, k \in {"tok-1", "tok-2", ""}}

\* refreshToken(token)
refreshToken(t, token) ==
    /\ mode[t] = Null
    /\ pc[t] = "Idle"
    /\ mode' = [mode EXCEPT ![t] = "refreshToken"]
    /\ req' = [req EXCEPT ![t] = [token |-> token]]
    /\ GoesTo(t, "findValidToken")
    /\ UNCHANGED <<db, wcount, pc, wlog, steps, ret, expired, bops, results, now>>

\* refreshToken: const record = await findValidToken(token);
\* if (!record || !record.user) throw new UnauthorizedException
refreshFindValidToken(t) ==
    LET o == findValidToken(StoreOf(Ambient), req[t].token, now)
        record == CHOOSE r \in o.res : TRUE
    IN /\ mode[t] = "refreshToken"
       /\ wpc[t] = "findValidToken"
       /\ steps' = [steps EXCEPT ![t] = @ + 1]
       /\ IF o.res = {} \/ UserOf(db, record) = {}
          THEN Rejects(t, "UnauthorizedException") /\ results' = results
          ELSE /\ results' = [results EXCEPT ![t] =
                                <<CHOOSE u \in UserOf(db, record) : TRUE, record>>]
               /\ GoesTo(t, "revokeToken")
       /\ UNCHANGED <<db, wcount, pc, mode, wlog, ret, expired, bops, req, now>>

\* refreshToken: await this.refreshTokenRepository.revokeToken(record.id)
refreshRevokeToken(t) ==
    LET record == results[t][2]
        o == revokeToken(StoreOf(Ambient), record.id, NextStamp(t))
    IN /\ mode[t] = "refreshToken"
       /\ wpc[t] = "revokeToken"
       /\ ~BlockedRows(Ambient, {record})
       /\ steps' = [steps EXCEPT ![t] = @ + 1]
       /\ IF o.err = Null
          THEN /\ db' = ApplyLog(db, o.log)
               /\ wcount' = [wcount EXCEPT ![t] = @ + 1]
               /\ GoesTo(t, "makeTokens")
          ELSE /\ Rejects(t, o.err)
               /\ UNCHANGED <<db, wcount>>
       /\ UNCHANGED <<pc, mode, wlog, ret, expired, bops, results, req, now>>

\* logout(userId, token)
logout(t, data) ==
    /\ mode[t] = Null
    /\ pc[t] = "Idle"
    /\ mode' = [mode EXCEPT ![t] = "logout"]
    /\ req' = [req EXCEPT ![t] = data]
    /\ GoesTo(t, "revokeUserTokens")
    /\ UNCHANGED <<db, wcount, pc, wlog, steps, ret, expired, bops, results, now>>

\* logout: await this.refreshTokenRepository.revokeUserTokens(userId, token)
logoutRevokeUserTokens(t) ==
    LET o == revokeUserTokens(StoreOf(Ambient), req[t].userId, req[t].token, NextStamp(t))
    IN /\ mode[t] = "logout"
       /\ wpc[t] = "revokeUserTokens"
       /\ ~BlockedRows(Ambient, o.rows)
       /\ steps' = [steps EXCEPT ![t] = @ + 1]
       /\ db' = ApplyLog(db, o.log)
       /\ wcount' = IF o.log # <<>> THEN [wcount EXCEPT ![t] = @ + 1] ELSE wcount
       /\ wpc' = [wpc EXCEPT ![t] = "returned"]
       /\ outcome' = [outcome EXCEPT ![t] = Resolved(Null)]
       /\ UNCHANGED <<pc, mode, wlog, err, ret, expired, bops, results, req, now>>

\* ------------------------------------------------ UserRegistrationService
\* deleteUserWithTokens(userId): this.unitOfWork.execute(async (tx) => ...)
deleteUserWithTokens(t, userId) ==
    /\ mode[t] = Null
    /\ pc[t] = "Idle"
    /\ pc' = [pc EXCEPT ![t] = "ScopeAcquiring"]
    /\ mode' = [mode EXCEPT ![t] = "execute"]
    /\ req' = [req EXCEPT ![t] = [userId |-> userId]]
    /\ UNCHANGED <<db, wcount, wpc, wlog, steps, err, ret, outcome, expired, bops,
                   results, now>>

\* work: await this.tokensRepo.revokeUserTokens(userId, undefined, tx)
deleteRevokeUserTokens(t) ==
    LET d == DomainDelegate("RefreshToken", t)
        o == revokeUserTokens(StoreOf(d.conn), req[t].userId, Null, NextStamp(t))
    IN /\ mode[t] = "execute"
       /\ wpc[t] = "running"
       /\ steps[t] = 0
       /\ steps' = [steps EXCEPT ![t] = @ + 1]
       /\ IF Closed(d.conn)
          THEN /\ Throws(t, "Timeout")
               /\ UNCHANGED <<db, wlog, wcount>>
          ELSE /\ ~BlockedRows(d.conn, o.rows)
               /\ wlog' = [wlog EXCEPT ![t] = @ \o o.log]
               /\ wcount' = IF o.log # <<>>
                            THEN [wcount EXCEPT ![t] = @ + 1] ELSE wcount
               /\ UNCHANGED <<db, pc, wpc, err>>
       /\ UNCHANGED <<req, mode, ret, outcome, expired, bops, results, now>>

\* work: await this.usersRepo.softDelete(userId, tx)
deleteSoftDelete(t) ==
    /\ mode[t] = "execute"
    /\ steps[t] = 1
    /\ WorkCall(t, "Users", "softDelete", [id |-> req[t].userId, key |-> Null], t)

\* work: return { success: true }
deleteReturn(t) ==
    /\ mode[t] = "execute"
    /\ steps[t] = 2
    /\ WorkReturn(t, [success |-> TRUE])

\* ------------------------------------------------------------------ Next
\* one unit of work, with any work function over the four repositories, next
\* to callers that write users and plans on the ambient connection
Next ==
    \/ \E repo \in {"Users", "Plans"} : \E op \in BaselineOps :
          \E a \in ArgsOf(op, KnownIds(Null, KindOf(repo)), KeysOf(KindOf(repo))) : AmbientWrite(repo, op, a)
    \/ \E m \in {"execute", "executeWithOptions"} : Begin("c1", m, <<>>)
    \/ \E t \in Calls : Acquire(t)
    \/ \E t \in Calls : AcquireTimeout(t)
    \/ \E t \in Calls : \E repo \in Repos : \E op \in Methods(repo) :
          \E a \in ArgsOf(op, KnownIds(t, KindOf(repo)), KeysOf(KindOf(repo))) : \E tx \in {t, Null} :
             WorkCall(t, repo, op, a, tx)
    \/ \E t \in Calls : WorkThrow(t)
    \/ \E t \in Calls : \E v \in RetVals : WorkReturn(t, v)
    \/ \E t \in Calls : Commit(t)
    \/ \E t \in Calls : Rollback(t)
    \/ \E t \in Calls : Expire(t)

Spec == Init /\ [][Next]_vars

\* one unit of work whose work function creates records and updates, deletes
\* and soft-deletes them by id through the Users and the Plans repository, next
\* to callers that create and delete users and plans on the ambient connection
NextWrite ==
    \/ \E repo \in {"Users", "Plans"} : \E op \in {"create", "delete"} :
          \E a \in ArgsOf(op, KnownIds(Null, KindOf(repo)), KeysOf(KindOf(repo))) : AmbientWrite(repo, op, a)
    \/ Begin("c1", "execute", <<>>)
    \/ \E t \in Calls : Acquire(t)
    \/ \E t \in Calls : \E repo \in {"Users", "Plans"} :
          \E op \in {"create", "update", "delete", "softDelete"} :
             \E a \in ArgsOf(op, KnownIds(t, KindOf(repo)), KeysOf(KindOf(repo))) : \E tx \in {t, Null} :
                WorkCall(t, repo, op, a, tx)
    \/ \E t \in Calls : \E v \in RetVals : WorkReturn(t, v)
    \/ \E t \in Calls : Commit(t)
    \/ \E t \in Calls : Rollback(t)
    \/ \E t \in Calls : Expire(t)

SpecWrite == Init /\ [][NextWrite]_vars

\* one batch next to callers that write on the ambient connection
NextBatch ==
    \/ \E repo \in {"Users", "Academies"} : \E op \in {"create", "delete"} :
          \E a \in ArgsOf(op, KnownIds(Null, KindOf(repo)), KeysOf(KindOf(repo))) : AmbientWrite(repo, op, a)
    \/ \E ops \in BatchLists : Begin("c1", "batch", ops)
    \/ \E t \in Calls : Acquire(t)
    \/ \E t \in Calls : BatchStep(t)
    \/ \E t \in Calls : Commit(t)
    \/ \E t \in Calls : Rollback(t)

SpecBatch == Init /\ [][NextBatch]_vars

\* two concurrent execute calls whose work functions create records and read
\* them back through the Users and the Plans repository
NextIso ==
    \/ \E t \in Calls : Begin(t, "execute", <<>>)
    \/ \E t \in Calls : Acquire(t)
    \/ \E t \in Calls : \E repo \in {"Users", "Plans"} :
          \E op \in {"create", "findById", "findMany", "count"} :
             \E a \in ArgsOf(op, KnownIds(t, KindOf(repo)), KeysOf(KindOf(repo))) : WorkCall(t, repo, op, a, t)
    \/ \E t \in Calls : WorkThrow(t)
    \/ \E t \in Calls : \E v \in RetVals : WorkReturn(t, v)
    \/ \E t \in Calls : Commit(t)
    \/ \E t \in Calls : Rollback(t)

SpecIso == Init /\ [][NextIso]_vars

\* one execute call whose transaction client is used again after the call has
\* settled
NextStale ==
    \/ Begin("c1", "execute", <<>>)
    \/ \E t \in Calls : Acquire(t)
    \/ \E t \in Calls : \E repo \in Repos : \E op \in BaselineOps :
          \E a \in ArgsOf(op, KnownIds(t, KindOf(repo)), KeysOf(KindOf(repo))) :
             WorkCall(t, repo, op, a, t)
    \/ \E t \in Calls : WorkThrow(t)
    \/ \E t \in Calls : \E v \in RetVals : WorkReturn(t, v)
    \/ \E t \in Calls : Commit(t)
    \/ \E t \in Calls : Rollback(t)
    \/ \E t \in Calls : \E repo \in Repos : \E op \in BaselineOps :
          \E a \in ArgsOf(op, KnownIds(t, KindOf(repo)), KeysOf(KindOf(repo))) :
             StaleCall(t, repo, op, a)

SpecStale == Init /\ [][NextStale]_vars

\* one unit of work whose work function creates users and plans and looks
\* records up, next to callers that create and delete users on the ambient
\* connection
NextRead ==
    \/ \E op \in {"create", "delete"} :
          \E a \in ArgsOf(op, KnownIds(Null, "user"), Keys) : AmbientWrite("Users", op, a)
    \/ Begin("c1", "execute", <<>>)
    \/ \E t \in Calls : Acquire(t)
    \/ \E t \in Calls : \E repo \in {"Users", "Plans"} :
          \E a \in ArgsOf("create", {NoStamp}, KeysOf(KindOf(repo))) :
             WorkCall(t, repo, "create", a, t)
    \/ \E t \in Calls : \E repo \in {"Users", "Plans"} :
          \E op \in {"findById", "exists", "findByEmail"} \cap Methods(repo) :
             \E a \in ArgsOf(op, KnownIds(t, KindOf(repo)), KeysOf(KindOf(repo))) :
                \E tx \in {t, Null} : ReadCall(t, repo, op, a, tx)
    \/ \E t \in Calls : WorkThrow(t)
    \/ \E t \in Calls : \E v \in RetVals : WorkReturn(t, v)
    \/ \E t \in Calls : Commit(t)
    \/ \E t \in Calls : Rollback(t)
    \/ \E t \in Calls : Expire(t)

SpecRead == Init /\ [][NextRead]_vars

\* two AuthService requests (register, login) next to callers that delete and
\* soft-delete users on the ambient connection
NextAuth ==
    \/ \E op \in {"delete", "softDelete"} :
          \E a \in ArgsOf(op, KnownIds(Null, "user"), Keys) : AmbientWrite("Users", op, a)
    \/ \E t \in Calls : \E data \in RegisterData : register(t, data)
    \/ \E t \in Calls : registerFindByEmail(t)
    \/ \E t \in Calls : registerCreateUser(t)
    \/ \E t \in Calls : \E data \in LoginData : login(t, data)
    \/ \E t \in Calls : loginFindByEmail(t)
    \/ \E t \in Calls : makeTokens(t)

SpecAuth == Init /\ [][NextAuth]_vars

\* two AuthService requests (refreshToken, logout) on a store that holds two
\* users with a refresh token each, while time passes and the clean-up runs
NextToken ==
    \/ Tick
    \/ CleanUp
    \/ \E t \in Calls : \E token \in RefreshInputs : refreshToken(t, token)
    \/ \E t \in Calls : refreshFindValidToken(t)
    \/ \E t \in Calls : refreshRevokeToken(t)
    \/ \E t \in Calls : makeTokens(t)
    \/ \E t \in Calls : \E data \in LogoutInputs : logout(t, data)
    \/ \E t \in Calls : logoutRevokeUserTokens(t)

SpecToken == InitToken /\ [][NextToken]_vars

\* two AuthService.register requests against a store that may fail a call
NextRegister ==
    \/ \E t \in Calls : \E data \in RegisterData : register(t, data)
    \/ \E t \in Calls : registerFindByEmail(t)
    \/ \E t \in Calls : registerCreateUser(t)
    \/ \E t \in Calls : makeTokens(t)
    \/ \E t \in Calls : makeTokensStoreError(t)

SpecRegister == Init /\ [][NextRegister]_vars

\* one deleteUserWithTokens next to a login, on a store that holds two users
\* with a refresh token each
NextDelete ==
    \/ \E userId \in UserIds \cup {NoStamp} : deleteUserWithTokens("c1", userId)
    \/ \E t \in Calls : Acquire(t)
    \/ \E t \in Calls : deleteRevokeUserTokens(t)
    \/ \E t \in Calls : deleteSoftDelete(t)
    \/ \E t \in Calls : deleteReturn(t)
    \/ \E t \in Calls : Commit(t)
    \/ \E t \in Calls : Rollback(t)
    \/ \E t \in Calls : Expire(t)
    \/ \E data \in LoginData : login("c2", data)
    \/ \E t \in Calls : loginFindByEmail(t)
    \/ \E t \in Calls : makeTokens(t)

SpecDelete == InitToken /\ [][NextDelete]_vars

\* ------------------------------------------------------------ observations
\* a write is visible to the reads made outside any scope when the committed
\* store shows it
VisibleOutside(s) == s \in Stamps(db)

\* the rows a findMany through `repo` returns to the work function of call t
\* when it passes its scope
ReadWithScope(t, repo) ==
    CallOutcome(repo, "findMany", [id |-> NoStamp, key |-> Null], t).rows

\* the call has settled: the promise execute / batch returned is resolved or
\* rejected in the step
Settles(t) == outcome[t] = Pending /\ outcome'[t] # Pending

\* the rows the transaction of call t shows as last written with its scope
OwnRows(t) == {r \in View(t).rows : r.ver.by = t}

\* ------------------------------------------------------------------ claims

\* C1: once execute(work) has rejected for a work function that made two or
\* more writes with the scope it was handed, none of those writes is visible to
\* a read made outside a scope.
C1_AtomicityOnFailure ==
    \A t \in Calls :
        (mode[t] = "execute" /\ outcome[t].status = "rejected" /\ wcount[t] >= 2)
            => \A s \in Wrote(t) : ~VisibleOutside(s)

\* C2 as stated: whenever the work function has returned normally, execute
\* commits, resolves with the value the work function returned, and every row
\* the work wrote with its scope is found by id outside any scope.
C2_CommitOnSuccess ==
    [][\A t \in Calls :
          (mode[t] = "execute" /\ wpc[t] = "returned" /\ Settles(t))
             => /\ pc'[t] = "Committed"
                /\ outcome'[t] = Resolved(ret[t])
                /\ \A r \in OwnRows(t) : ById(db', r.kind, r.id) = {r}]_vars

\* C2 as amended: when the work function has returned normally and the engine
\* has not closed the transaction on timeout in the meantime, execute commits,
\* resolves with exactly the value the work function returned, and every row
\* the work wrote with its scope is found by id outside any scope; the store
\* then holds all the writes of the transaction.
C2_CommitUnlessExpired ==
    [][\A t \in Calls :
          (mode[t] = "execute" /\ wpc[t] = "returned" /\ Settles(t) /\ ~expired[t])
             => /\ pc'[t] = "Committed"
                /\ outcome'[t] = Resolved(ret[t])
                /\ \A r \in OwnRows(t) : ById(db', r.kind, r.id) = {r}
                /\ ApplyLog(db', wlog[t]) = db']_vars

\* C2 witness: a unit of work that created a user and a refresh token has
\* committed and both rows are in the committed store.
C2_Witness ==
    \E t \in Calls :
        /\ pc[t] = "Committed" /\ outcome[t] = Resolved(ret[t]) /\ ret[t] \in RetVals
        /\ \E u \in Rows(db, "user"), k \in Rows(db, "userRefreshToken") :
              u.ver.by = t /\ k.ver.by = t

\* C3: while a scope is open, the last write made with it is visible to an
\* operation on the same scope (read-your-writes) and no write made with it is
\* visible to an operation outside that scope.
C3_ScopeThreading ==
    \A t \in Calls :
        (pc[t] = "ScopeOpen" /\ wcount[t] > 0)
            => /\ \E repo \in Repos :
                    StampOf(t, wcount[t]) \in
                        Stamps(StoreOf(BaseDelegate(repo, t).conn))
               /\ \A s \in Wrote(t) : ~VisibleOutside(s)

\* C4: for each of the four repositories, a baseline operation called with
\* the scope of an open unit of work executes on the delegate bound to that
\* scope, and on the ambient connection only when the scope is omitted.
C4_AllRepositoriesSupportScope ==
    \A t \in Calls :
        pc[t] = "ScopeOpen"
            => \A repo \in Repos : \A op \in BaselineOps :
                  /\ MethodDelegate(repo, op, t) = Delegate(t, KindOf(repo))
                  /\ MethodDelegate(repo, op, Null) = Delegate(Ambient, KindOf(repo))

\* C5: every domain-specific repository method called with the scope of an
\* open unit of work issues its store call on that scope.
C5_DomainMethodsThreadScope ==
    \A t \in Calls :
        pc[t] = "ScopeOpen"
            => \A repo \in Repos : \A op \in DomainOps(repo) :
                  MethodDelegate(repo, op, t) = Delegate(t, KindOf(repo))

\* C6: once the work function has thrown, by its own throw or by the error of
\* a repository call, execute rolls the transaction back and rejects with that
\* same error; the error is never swallowed (the call never commits or
\* resolves), the work function is never run again, and the rollback changes
\* nothing in the committed store.
C6_ErrorPropagates ==
    [][\A t \in Calls :
          wpc[t] = "threw"
             => /\ wpc'[t] = "threw" /\ steps'[t] = steps[t] /\ err'[t] = err[t]
                /\ pc'[t] # "Committed"
                /\ outcome'[t].status # "resolved"
                /\ Settles(t) => /\ outcome'[t] = Rejected(err[t])
                                 /\ pc'[t] = "RolledBack"
                                 /\ wlog'[t] = <<>>
                                 /\ db' = db]_vars

\* C6 witness: execute has rejected with the NotFound or ConstraintViolation
\* a repository call raised after the work had written with its scope.
C6_Witness ==
    \E t \in Calls :
        /\ outcome[t].status = "rejected"
        /\ outcome[t].val \in {"NotFound", "ConstraintViolation"}
        /\ pc[t] = "RolledBack" /\ wcount[t] >= 1 /\ ~expired[t]

\* C7: executeWithOptions whose transaction ran past its timeout, or that got
\* no transaction within maxWait, rejects, with the Timeout error unless the
\* work function threw an error of its own, and leaves no write made with its
\* scope visible.
C7_TimeoutEnforcement ==
    \A t \in Calls :
        (mode[t] = "executeWithOptions" /\ outcome[t] # Pending
            /\ (expired[t] \/ pc[t] = "StartFailed"))
            => /\ outcome[t].status = "rejected"
               /\ wpc[t] # "threw" => outcome[t].val = "Timeout"
               /\ \A s \in Wrote(t) : ~VisibleOutside(s)

\* C8: of two concurrent execute calls, neither reads with its scope a row
\* written with the scope of the other before the other has committed.
C8_DefaultIsolation ==
    \A t \in Calls : \A u \in Calls \ {t} :
        (wpc[t] = "running" /\ pc[t] = "ScopeOpen")
            => \A repo \in Repos : \A r \in ReadWithScope(t, repo) :
                  r.ver.by = u => pc[u] = "Committed"

\* C9: batch returns one result per operation, in the order of the operations:
\* each result is appended as the i-th and is what the i-th operation returns
\* when run on its own against the store state it ran against; a count in a
\* batch that has written nothing is the direct count on the ambient
\* connection; the batch resolves with exactly these results.
C9_BatchOrdering ==
    [][\A t \in Calls :
          mode[t] = "batch"
             => /\ results'[t] # results[t]
                   => LET i == Len(results[t]) + 1
                          b == bops[t][i]
                      IN /\ results'[t] =
                               Append(results[t],
                                      Exec(View(t), b.kind, b.op, b.a, NextStamp(t)).res)
                         /\ (b.op = "count" /\ wlog[t] = <<>>)
                               => results'[t][i] = Cardinality(Rows(db, b.kind))
                /\ (Settles(t) /\ outcome'[t].status = "resolved")
                   => /\ Len(outcome'[t].val) = Len(bops[t])
                      /\ outcome'[t].val = results[t]]_vars

\* C9 witness: a batch of two counts has resolved with two different counts.
C9_Witness ==
    \E t \in Calls :
        /\ mode[t] = "batch" /\ outcome[t].status = "resolved"
        /\ Len(bops[t]) = 2 /\ bops[t][1].op = "count" /\ bops[t][2].op = "count"
        /\ Len(outcome[t].val) = 2
        /\ outcome[t].val[1] # outcome[t].val[2]

\* C10: no write of a batch is visible outside it unless the batch has
\* committed; when one of its operations fails the batch rejects with that
\* error and nothing changes in the committed store; when none fails the batch
\* commits and the store holds the effect of every operation.
C10_BatchAllOrNothing ==
    /\ [](\A t \in Calls :
            (mode[t] = "batch" /\ pc[t] # "Committed")
               => \A s \in Wrote(t) : ~VisibleOutside(s))
    /\ [][\A t \in Calls :
            (mode[t] = "batch" /\ Settles(t))
               => IF wpc[t] = "threw"
                  THEN /\ outcome'[t] = Rejected(err[t])
                       /\ pc'[t] = "RolledBack"
                       /\ db' = db
                  ELSE /\ outcome'[t].status = "resolved"
                       /\ pc'[t] = "Committed"
                       /\ ApplyLog(db', wlog[t]) = db'
                       /\ \A r \in OwnRows(t) : r \in db'.rows]_vars

\* C10 witness: a batch whose first operation wrote and whose second operation
\* failed has rejected.
C10_Witness ==
    \E t \in Calls :
        /\ mode[t] = "batch" /\ outcome[t].status = "rejected"
        /\ wcount[t] >= 1 /\ pc[t] = "RolledBack"

\* C11 (as claimed): a call changes state only along Idle -> ScopeAcquiring ->
\* ScopeOpen -> (Committing -> Committed) | (RollingBack -> RolledBack), and
\* when it settles it is in Committed or in RolledBack.
C11_StateMachine ==
    [][\A t \in Calls :
          /\ pc'[t] # pc[t]
                => <<pc[t], pc'[t]>> \in
                      {<<"Idle", "ScopeAcquiring">>, <<"ScopeAcquiring", "ScopeOpen">>,
                       <<"ScopeOpen", "Committing">>, <<"Committing", "Committed">>,
                       <<"ScopeOpen", "RollingBack">>, <<"RollingBack", "RolledBack">>}
          /\ Settles(t) => pc'[t] \in {"Committed", "RolledBack"}]_vars

\* C11 (amended): the same state machine with the two exits a timeout takes:
\* a call that gets no transaction within the maximum wait leaves
\* ScopeAcquiring for a failed start, with no scope ever open, and a
\* transaction that outlives its timeout is rolled back by the engine straight
\* from ScopeOpen.  A call never leaves Committed, RolledBack or the failed
\* start, settles only in one of them, and resolves exactly when it is
\* Committed.
C11_StateMachineWithTimeouts ==
    [][\A t \in Calls :
          /\ pc'[t] # pc[t]
                => <<pc[t], pc'[t]>> \in
                      {<<"Idle", "ScopeAcquiring">>, <<"ScopeAcquiring", "ScopeOpen">>,
                       <<"ScopeOpen", "Committing">>, <<"Committing", "Committed">>,
                       <<"ScopeOpen", "RollingBack">>, <<"RollingBack", "RolledBack">>,
                       <<"ScopeAcquiring", "StartFailed">>, <<"ScopeOpen", "RolledBack">>}
          /\ (pc'[t] = "RolledBack" /\ pc[t] = "ScopeOpen") => expired'[t]
          /\ Settles(t)
                => /\ pc'[t] \in {"Committed", "RolledBack", "StartFailed"}
                   /\ outcome'[t].status = "resolved" <=> pc'[t] = "Committed"]_vars

\* C11 witness: a call whose work function returned after the engine had rolled
\* its transaction back has settled, rejected and RolledBack.
C11_Witness ==
    \E t \in Calls :
        /\ pc[t] = "RolledBack" /\ expired[t] /\ wpc[t] = "returned"
        /\ outcome[t].status = "rejected"

\* C12: the work function of a call is invoked once, in the step that opens
\* the scope, and never again: it starts running only from not started and
\* only as ScopeAcquiring becomes ScopeOpen, it is never reset, and once it has
\* returned or thrown (a Timeout of the engine included) or the call has
\* settled it issues no further repository call.
C12_WorkInvokedOnce ==
    [][\A t \in Calls :
          /\ (wpc'[t] = "running" /\ wpc[t] # "running")
                => /\ wpc[t] = "notStarted"
                   /\ pc[t] = "ScopeAcquiring" /\ pc'[t] = "ScopeOpen"
          /\ (pc[t] # "ScopeOpen" /\ pc'[t] = "ScopeOpen") => wpc'[t] = "running"
          /\ wpc[t] # "notStarted" => wpc'[t] # "notStarted"
          /\ steps'[t] >= steps[t]
          /\ (wpc[t] \in {"returned", "threw"} \/ outcome[t] # Pending)
                => wpc'[t] = wpc[t] /\ steps'[t] = steps[t]]_vars

\* C12 witness: a call has rejected with the engine's Timeout, which its work
\* function got from a repository call on the closed transaction.
C12_Witness ==
    \E t \in Calls :
        /\ expired[t] /\ wpc[t] = "threw" /\ err[t] = "Timeout"
        /\ outcome[t] = Rejected("Timeout") /\ steps[t] >= 1

\* C13: a repository operation invoked with the scope of a call that has
\* returned fails with InvalidScopeUse and changes nothing in the store.
C13_StaleScopeRejected ==
    [][\A t \in Calls : \A repo \in Repos : \A op \in BaselineOps :
          \A a \in ArgsOf(op, KnownIds(t, KindOf(repo)), KeysOf(KindOf(repo))) :
             StaleCall(t, repo, op, a)
                => /\ StaleCallOutcome(repo, op, a, t).err = "InvalidScopeUse"
                   /\ db' = db]_vars

\* C14: update, delete and softDelete called from a work function, with its
\* open scope or with none, on an id that matches no record the call can see
\* fail with NotFound: the work function leaves with that error and neither the
\* committed store nor any transaction's writes change.
C14_NotFound ==
    [][\A t \in Calls : steps'[t] # steps[t] =>
          \A repo \in Repos : \A op \in {"update", "delete", "softDelete"} :
          \A a \in ArgsOf(op, KnownIds(t, KindOf(repo)), KeysOf(KindOf(repo))) :
             \A tx \in {t, Null} :
                (/\ tx = t => ~expired[t]
                 /\ ById(StoreOf(ScopeOf(tx)), KindOf(repo), a.id) = {}
                 /\ WorkCall(t, repo, op, a, tx))
                   => /\ CallOutcome(repo, op, a, tx).err = "NotFound"
                      /\ wpc'[t] = "threw" /\ err'[t] = "NotFound"
                      /\ db' = db /\ wlog' = wlog /\ wcount' = wcount]_vars

\* C14 witness: a work function has left with NotFound while the store holds
\* records.
C14_Witness ==
    \E t \in Calls :
        /\ wpc[t] = "threw" /\ err[t] = "NotFound"
        /\ db.rows # {}

\* C15: neither the committed store nor the view of any transaction ever holds
\* two users with the same email, and a create / createUser called from a work
\* function (with its open scope or with none) with the email of a user the
\* call can see fails with ConstraintViolation and adds no record.
C15_UniqueEmail ==
    /\ [](\A S \in {db} \cup {View(t) : t \in Calls} :
             \A r1, r2 \in Rows(S, "user") : r1.key = r2.key => r1 = r2)
    /\ [][\A t \in Calls : \A op \in {"create", "createUser"} :
             \A a \in ArgsOf(op, {NoStamp}, Keys) : \A tx \in {t, Null} :
                (/\ WorkCall(t, "Users", op, a, tx)
                 /\ tx = t => ~expired[t]
                 /\ Where(StoreOf(ScopeOf(tx)), "user", a.key) # {})
                   => /\ wpc'[t] = "threw" /\ err'[t] = "ConstraintViolation"
                      /\ db' = db /\ wlog' = wlog /\ wcount' = wcount]_vars

\* C15 witness: the first repository call of a work function was a create of a
\* user with the email of the one user in the store, and failed.
C15_Witness ==
    \E t \in Calls :
        /\ wpc[t] = "threw" /\ err[t] = "ConstraintViolation"
        /\ steps[t] = 1 /\ Cardinality(Rows(db, "user")) = 1

\* C16: findById with an id and findByEmail with an email that match no record
\* the call can see, called with an open scope or with none, do not fail: the
\* work function goes on with an absent result, and nothing in the store
\* changes.
C16_AbsentLookup ==
    [][\A t \in Calls : \A repo \in {"Users", "Plans"} :
          \A op \in {"findById", "findByEmail"} \cap Methods(repo) :
             \A a \in ArgsOf(op, KnownIds(t, KindOf(repo)), KeysOf(KindOf(repo))) :
                \A tx \in {t, Null} :
                   (/\ ReadCall(t, repo, op, a, tx)
                    /\ tx = t => ~expired[t]
                    /\ IF op = "findById"
                       THEN ById(StoreOf(ScopeOf(tx)), KindOf(repo), a.id) = {}
                       ELSE Where(StoreOf(ScopeOf(tx)), KindOf(repo), a.key) = {})
                      => /\ wpc'[t] = "running" /\ err'[t] = err[t]
                         /\ results'[t] = Append(results[t], Answer(repo, op, a, tx, {}))
                         /\ db' = db /\ wlog' = wlog /\ wcount' = wcount]_vars

\* C16 witness: with users in the store, a work function got an absent result
\* from findById with its scope and from findByEmail without a scope.
C16_Witness ==
    \E t \in Calls :
        /\ Len(results[t]) = 2 /\ Rows(db, "user") # {}
        /\ results[t][1].op = "findById" /\ results[t][1].tx = t
        /\ results[t][1].res = {}
        /\ results[t][2].op = "findByEmail" /\ results[t][2].tx = Null
        /\ results[t][2].res = {}

C18_RepositoryFrame ==
    [][\A t \in Calls : \A repo \in Repos : \A op \in Methods(repo) :
          \A a \in ArgsOf(op, KnownIds(t, KindOf(repo)), KeysOf(KindOf(repo))) :
             \A tx \in {t, Null} :
                WorkCall(t, repo, op, a, tx)
                   => /\ MethodDelegate(repo, op, tx).conn = ScopeOf(tx)
                      /\ tx # Null => db' = db
                      /\ tx = Null => wlog' = wlog
                      /\ outcome' = outcome /\ expired' = expired
                      /\ \A u \in Calls :
                            /\ pc'[u] = "Committed" <=> pc[u] = "Committed"
                            /\ pc'[u] = "RolledBack" <=> pc[u] = "RolledBack"
                            /\ pc'[u] \in {"Idle", "ScopeAcquiring"}
                                  <=> pc[u] \in {"Idle", "ScopeAcquiring"}
                            /\ Len(wlog'[u]) >= Len(wlog[u])]_vars

C20_Login ==
    [][\A t \in Calls :
          /\ loginFindByEmail(t)
                => LET found == Where(db, "user", req[t].email)
                   IN /\ db' = db /\ wcount' = wcount
                      /\ IF \/ found = {}
                            \/ \E u \in found : \/ u.deletedAt # NoStamp
                                                \/ ~compare(req[t].password, u.password)
                         THEN /\ outcome'[t].status = "rejected"
                              /\ outcome'[t].val = "UnauthorizedException"
                         ELSE /\ outcome'[t] = Pending
                              /\ wpc'[t] = "makeTokens"
                              /\ {results'[t][1]} = found
          /\ (mode[t] = "login" /\ outcome[t].status = "rejected"
              /\ err[t] = "UnauthorizedException")
                => wcount'[t] = 0 /\ wpc'[t] = "threw" /\ steps'[t] = steps[t]
          /\ (mode[t] = "login" /\ outcome[t].status = "pending"
              /\ outcome'[t].status = "resolved")
                => LET user == results[t][1]
                       new == db'.rows \ db.rows
                   IN /\ db.rows \subseteq db'.rows
                      /\ Cardinality(new) = 1
                      /\ wcount[t] = 0 /\ wcount'[t] = 1
                      /\ \A k \in new :
                            /\ k.kind = "userRefreshToken" /\ k.ref = user.id
                            /\ k.ver.by = t
                            /\ outcome'[t].val.refreshToken = k.key
                      /\ user.deletedAt = NoStamp /\ user.key = req[t].email
                      /\ compare(req[t].password, user.password)
                      /\ outcome'[t].val.user = [id |-> user.id, email |-> user.key]
                      /\ outcome'[t].val.accessToken.sub = user.id]_vars

\* C20 witness: a login has resolved, and the store holds the refresh token it
\* returned, for the user whose email and password it was given.
C20_Witness ==
    \E t \in Calls :
        /\ mode[t] = "login" /\ outcome[t].status = "resolved"
        /\ \E k \in Rows(db, "userRefreshToken") :
              /\ k.key = outcome[t].val.refreshToken
              /\ k.ref = outcome[t].val.user.id
        /\ outcome[t].val.user.email = req[t].email

\* the refresh tokens of store S that carry value token, are not revoked and
\* expire later than clock
ValidTokens(S, token, clock) ==
    {r \in Rows(S, "userRefreshToken") :
        r.key = token /\ r.revokedAt = NoStamp /\ r.expiresAt > clock}

\* C21: when refreshToken looks its token up and no record with that value is
\* unrevoked and unexpired, it fails with UnauthorizedException, and a
\* refreshToken that failed so has revoked and created nothing; otherwise it
\* goes on with such a record and its user.  A refreshToken resolves only after
\* revoking that record and by storing exactly one new, valid refresh token for
\* the same user, which it returns with the user; and once a refreshToken for
\* a token has resolved, no lookup of that token finds a valid record again.
C21_Rotation ==
    /\ [][\A t \in Calls :
             /\ refreshFindValidToken(t)
                   => /\ db' = db /\ wcount' = wcount
                      /\ IF ValidTokens(db, req[t].token, now) = {}
                         THEN /\ outcome'[t].status = "rejected"
                              /\ outcome'[t].val = "UnauthorizedException"
                         ELSE /\ outcome'[t] = Pending
                              /\ wpc'[t] = "revokeToken"
                              /\ results'[t][2] \in ValidTokens(db, req[t].token, now)
                              /\ results'[t][1].id = results'[t][2].ref
             /\ (mode[t] = "refreshToken" /\ outcome[t].status = "rejected"
                 /\ err[t] = "UnauthorizedException")
                   => wcount'[t] = 0 /\ wpc'[t] = "threw" /\ steps'[t] = steps[t]
             /\ refreshRevokeToken(t)
                   => LET record == results[t][2]
                      IN IF ById(db, "userRefreshToken", record.id) = {}
                         THEN db' = db /\ outcome'[t].status = "rejected"
                         ELSE /\ \A r \in ById(db', "userRefreshToken", record.id) :
                                    r.revokedAt # NoStamp
                              /\ ById(db', "userRefreshToken", record.id) # {}
                              /\ {x \in db'.rows : x.id # record.id}
                                    = {x \in db.rows : x.id # record.id}
                              /\ outcome'[t] = Pending /\ wpc'[t] = "makeTokens"
             /\ (mode[t] = "refreshToken" /\ outcome[t].status = "pending"
                 /\ outcome'[t].status = "resolved")
                   => LET record == results[t][2]
                          new == db'.rows \ db.rows
                      IN /\ \A r \in ById(db', "userRefreshToken", record.id) :
                               r.revokedAt # NoStamp
                         /\ db.rows \subseteq db'.rows
                         /\ Cardinality(new) = 1
                         /\ wcount[t] = 1 /\ wcount'[t] = 2
                         /\ \A k \in new :
                               /\ k.kind = "userRefreshToken" /\ k.ref = record.ref
                               /\ k.revokedAt = NoStamp /\ k.expiresAt > now
                               /\ k.key # record.key
                               /\ outcome'[t].val.refreshToken = k.key
                         /\ outcome'[t].val.user.id = record.ref
                         /\ outcome'[t].val.accessToken.sub = record.ref]_vars
    /\ [](\A t \in Calls :
             (mode[t] = "refreshToken" /\ outcome[t].status = "resolved")
                => findValidToken(db, req[t].token, now).res = {})

\* C21 witness: a refreshToken has resolved, the record of its token is revoked
\* in the store, the token it returned is stored for the same user, and a later
\* refreshToken with the same token has failed with UnauthorizedException.
C21_Witness ==
    \E t, u \in Calls :
        /\ mode[t] = "refreshToken" /\ outcome[t].status = "resolved"
        /\ \E r, k \in Rows(db, "userRefreshToken") :
              /\ r.key = req[t].token /\ r.revokedAt # NoStamp
              /\ k.key = outcome[t].val.refreshToken /\ k.ref = r.ref
              /\ k.revokedAt = NoStamp
        /\ mode[u] = "refreshToken" /\ req[u] = req[t]
        /\ outcome[u].status = "rejected" /\ outcome[u].val = "UnauthorizedException"

\* the step of logout changes exactly the refresh tokens in target, which it
\* marks revoked, and resolves
RevokesExactly(t, target) ==
    /\ \A r \in db.rows \ target : r \in db'.rows
    /\ \A r \in target :
          \E x \in db'.rows :
              /\ x.revokedAt # NoStamp
              /\ [x EXCEPT !.revokedAt = NoStamp, !.ver = r.ver] = r
    /\ Cardinality(db'.rows) = Cardinality(db.rows)
    /\ outcome'[t].status = "resolved"

\* C22 as stated: logout revokes exactly the not-yet-revoked refresh tokens of
\* the user whose value is the given token, touches nothing else, and once it
\* has completed no valid record carries the given token, so that refreshToken
\* with it fails.
C22_Logout ==
    [][\A t \in Calls :
          logoutRevokeUserTokens(t)
             => /\ RevokesExactly(t, {r \in Rows(db, "userRefreshToken") :
                                        /\ r.ref = req[t].userId
                                        /\ r.key = req[t].token
                                        /\ r.revokedAt = NoStamp})
                /\ ValidTokens(db', req[t].token, now) = {}]_vars

\* C22 as amended: logout revokes exactly the not-yet-revoked refresh tokens of
\* the user whose value is the given token, or all not-yet-revoked tokens of
\* the user when the token is the empty string, and touches nothing else, in
\* particular no token of another user.  Once it has completed, no valid record
\* of that user carries the given token; a refreshToken with that token then
\* fails with UnauthorizedException if the token is not one of another user.
C22_LogoutOwnTokens ==
    /\ [][\A t \in Calls :
             /\ logoutRevokeUserTokens(t)
                   => /\ RevokesExactly(t, {r \in Rows(db, "userRefreshToken") :
                                              /\ r.ref = req[t].userId
                                              /\ req[t].token # "" => r.key = req[t].token
                                              /\ r.revokedAt = NoStamp})
                      /\ \A r \in Rows(db, "userRefreshToken") :
                            r.ref # req[t].userId => r \in db'.rows
             /\ \A u \in Calls :
                   (/\ mode[t] = "logout" /\ outcome[t].status = "resolved"
                    /\ refreshFindValidToken(u) /\ req[u].token = req[t].token
                    /\ \A r \in Where(db, "userRefreshToken", req[t].token) :
                          r.ref = req[t].userId)
                      => /\ outcome'[u].status = "rejected"
                         /\ outcome'[u].val = "UnauthorizedException"
                         /\ db' = db]_vars
    /\ [](\A t \in Calls :
             (mode[t] = "logout" /\ outcome[t].status = "resolved")
                => \A r \in ValidTokens(db, req[t].token, now) : r.ref # req[t].userId)

\* C22 witness: a logout of a user with that user's token has completed, the
\* token is revoked, the token of the other user is not, and a refreshToken
\* with the revoked token has failed with UnauthorizedException.
C22_Witness ==
    \E t, u \in Calls :
        /\ mode[t] = "logout" /\ outcome[t].status = "resolved"
        /\ \E r \in Rows(db, "userRefreshToken") :
              /\ r.key = req[t].token /\ r.ref = req[t].userId
              /\ r.revokedAt = StampOf(t, 1)
        /\ \E r \in Rows(db, "userRefreshToken") :
              r.ref # req[t].userId /\ r.revokedAt = NoStamp
        /\ mode[u] = "refreshToken" /\ req[u].token = req[t].token
        /\ outcome[u].status = "rejected" /\ outcome[u].val = "UnauthorizedException"

\* C26: in every interleaving of refreshToken calls with the same token, at
\* most one of them resolves and issues a new token pair.
C26_RedeemedOnce ==
    \A t, u \in Calls :
        (/\ t # u
         /\ mode[t] = "refreshToken" /\ mode[u] = "refreshToken"
         /\ req[t].token = req[u].token
         /\ outcome[t].status = "resolved")
            => outcome[u].status # "resolved"

\* the values refresh tokens carry
TokenValues == {"tok-1", "tok-2", "uuid-1", "uuid-2"}

C23_RegisterAtomic ==
    \A t \in Calls :
        (mode[t] = "register" /\ outcome[t].status = "rejected")
            => \A u \in Rows(db, "user") : u.id.by # t

\* C24: when deleteUserWithTokens settles, either it has rejected and the store
\* shows none of its writes (no token revoked by it, the user not deleted by
\* it), or it has resolved and the store shows the user with deletedAt set and
\* no valid refresh token of that user.
C24_DeleteUserWithTokens ==
    [][\A t \in Calls :
          (mode[t] = "execute" /\ Settles(t))
             => IF outcome'[t].status = "rejected"
                THEN \A s \in Wrote(t) : s \notin Stamps(db')
                ELSE /\ \E u \in ById(db', "user", req[t].userId) : u.deletedAt # NoStamp
                     /\ \A r \in Rows(db', "userRefreshToken") :
                           r.ref = req[t].userId => r \notin ValidTokens(db', r.key, now)]_vars

\* C25: every execute call gets a scope of its own, freshly opened: the scope a
\* call is handed holds no write, while scopes are open they are distinct
\* transactions with separate writes, and a repository operation a call makes
\* with its scope runs on that scope only: it touches neither the committed
\* store nor the writes of another call's scope.
C25_OwnScope ==
    [][\A t \in Calls :
          /\ Acquire(t) => wlog'[t] = <<>> /\ View(t)' = db'
          /\ \A repo \in {"Users", "Plans"} : \A op \in {"create", "findById", "findMany", "count"} :
                \A a \in ArgsOf(op, KnownIds(t, KindOf(repo)), KeysOf(KindOf(repo))) :
                   WorkCall(t, repo, op, a, t)
                      => /\ MethodDelegate(repo, op, t).conn = t
                         /\ db' = db
                         /\ \A u \in Calls \ {t} : wlog'[u] = wlog[u]]_vars

\* --------------------------------------------- an execute inside an execute
\* the work function of call outer awaits the execute it made
Awaiting(outer, inner) == pc[inner] # "Idle" /\ outcome[inner] = Pending

\* the work function of call outer calls unitOfWork.execute: execute hands the
\* work to this.prisma.$transaction, the ambient client, whatever transaction
\* the caller is in
NestedExecute(outer, inner) ==
    /\ wpc[outer] = "running"
    /\ mode[outer] = "execute"
    /\ Begin(inner, "execute", <<>>)

\* the work function of call outer goes on after the execute it made: a
\* repository call with its own scope
OuterCall(outer, inner, repo, op, a) ==
    /\ ~Awaiting(outer, inner)
    /\ WorkCall(outer, repo, op, a, outer)

\* the execute the work function of call outer awaited has rejected, and the
\* work function does not catch the error
OuterRethrow(outer, inner) ==
    /\ wpc[outer] = "running"
    /\ outcome[inner].status = "rejected"
    /\ Throws(outer, outcome[inner].val)
    /\ UNCHANGED <<req, now, db, wcount, mode, wlog, steps, ret, outcome, expired, bops,
                   results>>

\* the work function of call outer returns or fails after the execute it made
OuterReturn(outer, inner, v) == ~Awaiting(outer, inner) /\ WorkReturn(outer, v)
OuterThrow(outer, inner) == ~Awaiting(outer, inner) /\ WorkThrow(outer)

\* a unit of work c1 whose work function writes users with its scope and calls
\* execute once; the inner unit of work c2 writes users with its own scope
NextNested ==
    \/ Begin("c1", "execute", <<>>)
    \/ \E t \in Calls : Acquire(t)
    \/ NestedExecute("c1", "c2")
    \/ \E op \in {"create", "delete"} :
          \E a \in ArgsOf(op, KnownIds("c1", "user"), Keys) : OuterCall("c1", "c2", "Users", op, a)
    \/ \E op \in {"create", "delete"} :
          \E a \in ArgsOf(op, KnownIds("c2", "user"), Keys) : WorkCall("c2", "Users", op, a, "c2")
    \/ OuterRethrow("c1", "c2")
    \/ OuterReturn("c1", "c2", "ok")
    \/ OuterThrow("c1", "c2")
    \/ WorkReturn("c2", "ok")
    \/ WorkThrow("c2")
    \/ \E t \in Calls : Commit(t)
    \/ \E t \in Calls : Rollback(t)
    \/ \E t \in Calls : Expire(t)

SpecNested == Init /\ [][NextNested]_vars

\* C28: an execute made from inside the work function of another execute is
\* accepted and gets a transaction of its own: it starts with no writes and
\* sees the committed store only, the writes of either unit of work leave the
\* other's alone, the inner commit applies exactly the inner writes while the
\* outer transaction is still open, and the rollback or expiry of the outer
\* unit of work leaves the committed store, the inner writes included, as it is.
C28_Nested ==
    /\ [](pc["c2"] = "Committed" /\ pc["c1"] = "RolledBack" /\ wcount["c2"] > 0
             => StampOf("c2", wcount["c2"]) \in Stamps(db))
    /\ [][/\ (wpc["c1"] = "running" /\ mode["c1"] = "execute" /\ pc["c2"] = "Idle")
                => ENABLED NestedExecute("c1", "c2")
          /\ (Acquire("c2") /\ pc["c1"] = "ScopeOpen")
                => pc'["c2"] = "ScopeOpen" /\ wlog'["c2"] = <<>> /\ View("c2")' = db'
          /\ (wlog'["c2"] # wlog["c2"] /\ pc'["c2"] = "ScopeOpen")
                => wlog'["c1"] = wlog["c1"] /\ db' = db
          /\ (wlog'["c1"] # wlog["c1"] /\ pc'["c1"] = "ScopeOpen")
                => wlog'["c2"] = wlog["c2"] /\ db' = db
          /\ (Commit("c2") /\ ~expired["c2"])
                => db' = ApplyLog(db, wlog["c2"]) /\ wlog'["c1"] = wlog["c1"]
                      /\ pc'["c1"] = pc["c1"]
          /\ (Rollback("c1") \/ Expire("c1")) => db' = db /\ pc'["c2"] = pc["c2"]]_vars

\* C28 witness: the inner unit of work has committed a write, the outer one
\* wrote as well and has rolled back and rejected, and the inner write is in
\* the committed store.
C28_Witness ==
    /\ pc["c2"] = "Committed" /\ outcome["c2"].status = "resolved"
    /\ pc["c1"] = "RolledBack" /\ outcome["c1"].status = "rejected"
    /\ wcount["c1"] > 0 /\ wcount["c2"] > 0
    /\ StampOf("c2", 1) \in Stamps(db)
    /\ \A x \in Stamps(db) : x.by # "c1"

\* ------------------------------------------------- count, exists, findMany
\* the filters a caller passes to count, exists and findMany
Filters(repo) == ArgsOf("count", {NoStamp}, KeysOf(KindOf(repo)))

\* count(where, tx), exists(where, tx) and findMany(where, undefined, tx) called
\* with the same filter and scope on the same store state
SameScopeAgree(repo, a, tx) ==
    LET c == CallOutcome(repo, "count", a, tx)
        e == CallOutcome(repo, "exists", a, tx)
        m == CallOutcome(repo, "findMany", a, tx)
    IN IF c.err # Null THEN e.err = c.err /\ m.err = c.err
       ELSE /\ e.err = Null /\ m.err = Null
            /\ c.res \in Nat
            /\ e.res = (c.res > 0)
            /\ c.res = Cardinality(m.res)

\* one unit of work whose work function creates users with its scope and calls
\* count, exists and findMany of the Users repository with and without it, for
\* one email and for no filter, next to callers that create users on the
\* ambient connection
NextCount ==
    \/ \E a \in ArgsOf("create", {NoStamp}, Keys) : AmbientWrite("Users", "create", a)
    \/ Begin("c1", "execute", <<>>)
    \/ \E t \in Calls : Acquire(t)
    \/ \E t \in Calls : \E a \in ArgsOf("create", {NoStamp}, Keys) :
          WorkCall(t, "Users", "create", a, t)
    \/ \E t \in Calls : \E op \in {"count", "exists", "findMany"} :
          \E a \in ArgsOf(op, {NoStamp}, {"k1"}) : \E tx \in {t, Null} :
             ReadCall(t, "Users", op, a, tx)
    \/ \E t \in Calls : \E v \in RetVals : WorkReturn(t, v)
    \/ \E t \in Calls : Commit(t)
    \/ \E t \in Calls : Rollback(t)
    \/ \E t \in Calls : Expire(t)

SpecCount == Init /\ [][NextCount]_vars

\* C30: on every store state, for every filter and every scope a caller can
\* pass, count returns a natural number, exists returns true exactly when that
\* number is greater than 0, and the number is the number of records findMany
\* returns; and what a call of count, exists or findMany by a work function
\* returns is what the other two return for the same filter and scope.
C30_CountExists ==
    /\ [](\A t \in Calls : \A tx \in {t, Null} : \A a \in Filters("Users") :
             SameScopeAgree("Users", a, tx))
    /\ [][\A t \in Calls :
             Len(results'[t]) > Len(results[t])
                => LET ans == results'[t][Len(results'[t])]
                       c == CallOutcome(ans.repo, "count", ans.a, ans.tx).res
                       m == CallOutcome(ans.repo, "findMany", ans.a, ans.tx).res
                   IN CASE ans.op = "exists" -> ans.res = (c > 0) /\ ans.res = (m # {})
                        [] ans.op = "count" -> ans.res = Cardinality(m) /\ ans.res >= 0
                        [] ans.op = "findMany" -> Cardinality(ans.res) = c
                        [] OTHER -> TRUE]_vars

\* C30 witness: a work function that holds an uncommitted user next to a
\* committed one has called exists with its scope and no filter and got true;
\* count on that scope is 2 and on the ambient connection 1.
C30_Witness ==
    \E t \in Calls : \E i \in 1..Len(results[t]) :
        /\ results[t][i].op = "exists" /\ results[t][i].tx = t
        /\ results[t][i].a.key = Null
        /\ results[t][i].res = TRUE
        /\ pc[t] = "ScopeOpen"
        /\ CallOutcome("Users", "count", results[t][i].a, t).res = 2
        /\ CallOutcome("Users", "count", results[t][i].a, Null).res = 1

\* C27: a write a work function makes through a repository without passing
\* its scope runs on the ambient connection: it is applied to the committed
\* store in the same step, where reads outside the scope see it, it is no part
\* of the transaction's writes, and neither the rollback of the enclosing unit
\* of work nor the expiry of its transaction changes the committed store.
C27_StandaloneWrite ==
    [][\A t \in Calls :
          /\ \A repo \in {"Users", "Plans"} : \A op \in {"create", "update", "delete", "softDelete"} :
                \A a \in ArgsOf(op, KnownIds(t, KindOf(repo)), KeysOf(KindOf(repo))) :
                   (/\ steps'[t] # steps[t]
                    /\ CallOutcome(repo, op, a, Null).err = Null
                    /\ WorkCall(t, repo, op, a, Null))
                      => /\ MethodDelegate(repo, op, Null).conn = Ambient
                         /\ db' = ApplyLog(db, CallOutcome(repo, op, a, Null).log)
                         /\ NextStamp(Ambient) \in Stamps(db')
                         /\ wlog' = wlog /\ wcount'[t] = wcount[t]
          /\ (Rollback(t) \/ Expire(t)) => db' = db
          /\ (pc[t] # "RolledBack" /\ pc'[t] = "RolledBack")
                => \A x \in Stamps(db) : x.by = Ambient => VisibleOutside(x)']_vars

\* C27 witness: a work function wrote once without its scope and then failed;
\* the unit of work has rolled back and rejected, and the write is in the
\* committed store.
C27_Witness ==
    \E t \in Calls :
        /\ steps[t] = 2 /\ wcount[t] = 0 /\ wcount[Ambient] = 1
        /\ pc[t] = "RolledBack" /\ outcome[t].status = "rejected"
        /\ VisibleOutside(StampOf(Ambient, 1))

====
